---- MODULE Spec2Model ----
(***************************************************************************)
(* Lead Scout: lead scoring and decision pipeline.                         *)
(*                                                                         *)
(* Numbers.  Scores on the 0-100 scale are kept in tenths (70.0 is 700),   *)
(* the precision to which the code rounds them.  Signal strength, decay    *)
(* and probabilities are kept per mille, logits in millionths.  Time is    *)
(* counted in days.  Text is a tuple of one-character strings so that      *)
(* lower-casing and substring search are computed, not assumed.            *)
(***************************************************************************)
EXTENDS Integers, Sequences, FiniteSets, TLC

\* ------------------------------------------------------------------------
\* Bounds of the model
\* ------------------------------------------------------------------------
MaxSignals == 2         \* longest signal list handed to the intent scorer
MaxCompanySignals == 2  \* longest company signal list (committee detection)
MaxBatch == 2           \* leads in one batch run
RngStates == 3          \* distinct states of the global numpy generator

\* ------------------------------------------------------------------------
\* Text
\* ------------------------------------------------------------------------
\* Python None for an optional text field
NoneStr == <<"None">>

\* str.lower(): the upper-case letters and their lower-case forms
UpperCase == <<"A", "B", "C", "D", "E", "F", "G", "H", "I", "J", "K", "L", "M",
               "N", "O", "P", "Q", "R", "S", "T", "U", "V", "W", "X", "Y", "Z">>
LowerCase == <<"a", "b", "c", "d", "e", "f", "g", "h", "i", "j", "k", "l", "m",
               "n", "o", "p", "q", "r", "s", "t", "u", "v", "w", "x", "y", "z">>

LowerChar(c) ==
    IF \E i \in DOMAIN UpperCase : UpperCase[i] = c
    THEN LowerCase[CHOOSE i \in DOMAIN UpperCase : UpperCase[i] = c]
    ELSE c

lower(s) == [i \in DOMAIN s |-> LowerChar(s[i])]

\* Python `needle in hay` on str
Contains(needle, hay) ==
    \E i \in 0..(Len(hay) - Len(needle)) :
        \A j \in 1..Len(needle) : hay[i + j] = needle[j]

\* Python truthiness of an Optional[str]
Truthy(s) == s # NoneStr /\ s # <<>>

\* ------------------------------------------------------------------------
\* Engagement: HighIntentFilter
\* ------------------------------------------------------------------------
\* Optional[EnrichedCompany] = None
NoCompany == [absent |-> TRUE]

HasCompany(lead) == lead.company # NoCompany

EnrichedCompany(name, website, industry, size, tech_stack, funding_stage) ==
    [name |-> name, website |-> website, industry |-> industry, size |-> size,
     tech_stack |-> tech_stack, funding_stage |-> funding_stage]

EngagementConfig(min_intent, min_icp, excluded, comps) ==
    [min_intent_score |-> min_intent, min_icp_score |-> min_icp,
     excluded_domains |-> excluded, competitors |-> comps]

\* first competitor of the list found in the lower-cased company name
CompetitorHit(config, company_name) ==
    \E k \in DOMAIN config.competitors :
        Contains(lower(config.competitors[k]), company_name)

DomainHit(config, domain) ==
    \E k \in DOMAIN config.excluded_domains :
        Contains(lower(config.excluded_domains[k]), domain)

NoExclusion == "None"

check_exclusions(config, lead) ==
    IF ~HasCompany(lead) \/ ~Truthy(lead.company.website)
    THEN NoExclusion
    ELSE IF CompetitorHit(config, lower(lead.company.name))
         THEN "Competitor detected"
         ELSE IF DomainHit(config, lower(lead.company.website))
              THEN "Excluded domain"
              ELSE NoExclusion

\* A reason is its fixed text plus the two numbers an f-string formats into
\* it (0 where the text has none): f"ICP Score {a} < {b}" is
\* Reason("ICP Score", "", a, b), f"Exclusion: {r}" is Reason("Exclusion", r, 0, 0).
Reason(text, detail, value, limit) ==
    [text |-> text, detail |-> detail, value |-> value, limit |-> limit]

EngagementDecision(engage, prio, why) ==
    [should_engage |-> engage, priority |-> prio, reason |-> why]

\* the threshold branches of evaluate_lead with the intent test taken first
ScoreDecisionIntentFirst(config, intent_score, icp_score_val) ==
    LET intent_pass == intent_score.score >= config.min_intent_score
        icp_pass    == icp_score_val >= config.min_icp_score
    IN  IF intent_pass /\ icp_pass
        THEN EngagementDecision(TRUE, "HIGH", Reason("High Intent + High ICP Match", "", 0, 0))
        ELSE IF ~intent_pass
             THEN EngagementDecision(FALSE, "MEDIUM",
                      Reason("Intent Score", "", intent_score.score, config.min_intent_score))
             ELSE EngagementDecision(FALSE, "LOW",
                      Reason("ICP Score", "", icp_score_val, config.min_icp_score))

\* evaluate_lead, step 2: the threshold branches
ScoreDecision(config, intent_score, icp_score_val) ==
    LET intent_pass == intent_score.score >= config.min_intent_score
        icp_pass    == icp_score_val >= config.min_icp_score
    IN  IF intent_pass /\ icp_pass
        THEN EngagementDecision(TRUE, "HIGH", Reason("High Intent + High ICP Match", "", 0, 0))
        ELSE IF ~icp_pass
             THEN EngagementDecision(FALSE, "LOW",
                      Reason("ICP Score", "", icp_score_val, config.min_icp_score))
             ELSE EngagementDecision(FALSE, "MEDIUM",
                      Reason("Intent Score", "", intent_score.score, config.min_intent_score))

evaluate_lead(config, lead, intent_score, icp_score_val) ==
    LET exclusion_reason == check_exclusions(config, lead)
    IN  IF exclusion_reason # NoExclusion
        THEN EngagementDecision(FALSE, "LOW", Reason("Exclusion", exclusion_reason, 0, 0))
        ELSE ScoreDecision(config, intent_score, icp_score_val)

\* ------------------------------------------------------------------------
\* Scoring: IntentScorer
\* ------------------------------------------------------------------------
\* datetime.now() of the scoring call, in days
Now == 40

\* Optional[EnrichedLead] = None
NoLead == [absent |-> TRUE]

SignalEvent(type, user_id, timestamp, action, strength) ==
    [type |-> type, user_id |-> user_id, timestamp |-> timestamp,
     action |-> action, strength |-> strength]

\* ScoringConfig defaults.  action_modifiers keeps the dict's insertion
\* order, which the scorer's loop follows.
DefaultSignalWeights ==
    [t \in {"content_engagement", "profile_visit", "funding_round", "role_change",
            "event_attendance", "demo_request", "pricing_page_visit"} |->
        CASE t = "content_engagement" -> 10
          [] t = "profile_visit"      -> 15
          [] t = "funding_round"      -> 40
          [] t = "role_change"        -> 25
          [] t = "event_attendance"   -> 20
          [] t = "demo_request"       -> 70
          [] t = "pricing_page_visit" -> 35]

DefaultActionModifiers ==
    << <<<<"l", "i", "k", "e">>, 1>>,
       <<<<"c", "o", "m", "m", "e", "n", "t">>, 2>>,
       <<<<"s", "h", "a", "r", "e">>, 3>>,
       <<<<"v", "i", "s", "i", "t">>, 1>> >>

ScoringConfig(half_life, high, medium) ==
    [signal_weights |-> DefaultSignalWeights,
     action_modifiers |-> DefaultActionModifiers,
     decay_half_life |-> half_life,
     high_threshold |-> high,
     medium_threshold |-> medium]

\* 72 hours
DefaultHalfLife == 3
DefaultHighThreshold == 700
DefaultMediumThreshold == 300
UnknownTypeWeight == 5

\* 0.5 ** (r / half_life) per mille for 0 <= r < half_life
HalfPowFrac ==
    [h \in {3, 7} |->
        IF h = 3 THEN <<1000, 794, 630>>
                 ELSE <<1000, 906, 820, 743, 673, 610, 552>>]

RECURSIVE Pow2(_)
Pow2(n) == IF n = 0 THEN 1 ELSE 2 * Pow2(n - 1)

\* The double 0.5 ** x as significand per mille and binary exponent: the value
\* sig/1000 * 2^-exp with 500 < sig <= 1000.  Doubles under 2^-1022 are
\* multiples of the smallest one, 2^-1074; within the last SubnormalBits
\* binary places above it they are coarser than a per mille and are written
\* 1000*k at exponent 1074.  The result is 0.0 from x = 1075 on.
SmallestExp == 1074
SubnormalBits == 10

Double(sig, exp) == [sig |-> sig, exp |-> exp]

DoubleOne == Double(1000, 0)
DoubleHalf == Double(1000, 1)
DoubleZero == Double(0, SmallestExp)

DoubleLess(a, b) ==
    IF a.exp = b.exp THEN a.sig < b.sig ELSE a.exp > b.exp

\* rounding of sig/1000 * 2^-exp to the doubles
RoundToDouble(sig, exp) ==
    IF exp > SmallestExp THEN DoubleZero
    ELSE IF exp >= SmallestExp - SubnormalBits
         THEN Double(1000 * ((2 * sig * Pow2(SmallestExp - exp) + 1000) \div 2000),
                     SmallestExp)
    ELSE Double(sig, exp)

\* the configured half-life taken for the default one
decay_default_half_life(config, now, timestamp) ==
    LET age0 == now - timestamp
        age  == IF age0 < 0 THEN 0 ELSE age0
    IN  RoundToDouble(HalfPowFrac[DefaultHalfLife][(age % DefaultHalfLife) + 1],
                      age \div DefaultHalfLife)

\* _calculate_decay: 0.5 ** (age / half_life), future timestamps taken as age 0
decay(config, now, timestamp) ==
    LET age0 == now - timestamp
        age  == IF age0 < 0 THEN 0 ELSE age0
        hl   == config.decay_half_life
    IN  RoundToDouble(HalfPowFrac[hl][(age % hl) + 1], age \div hl)

MaxShift == 30

\* a double below 1, per mille
PerMille(d) ==
    IF d.exp > MaxShift THEN 0 ELSE d.sig \div Pow2(d.exp)

\* _calculate_decay, per mille
calculate_decay(config, now, timestamp) == PerMille(decay(config, now, timestamp))

\* dict.get(type, 5.0)
BaseWeight(config, type) ==
    IF type \in DOMAIN config.signal_weights
    THEN config.signal_weights[type]
    ELSE UnknownTypeWeight

\* the modifier loop: first key (in dict order) contained in the action text
RECURSIVE ModifierFrom(_, _, _)
ModifierFrom(mods, k, action_text) ==
    IF k > Len(mods) THEN 1
    ELSE IF Contains(mods[k][1], action_text) THEN mods[k][2]
    ELSE ModifierFrom(mods, k + 1, action_text)

ActionModifier(config, signal) ==
    IF Truthy(signal.action)
    THEN ModifierFrom(config.action_modifiers, 1, lower(signal.action))
    ELSE 1

\* a contribution that pulls the score down with the signal's weight
SignalWeightNegated(config, now, signal) ==
    0 - (BaseWeight(config, signal.type) * ActionModifier(config, signal)
           * signal.strength * calculate_decay(config, now, signal.timestamp))

\* signal_weight = base_weight * modifier * strength_factor * decay,
\* in millionths of a weight point
SignalWeight(config, now, signal) ==
    BaseWeight(config, signal.type) * ActionModifier(config, signal)
        * signal.strength * calculate_decay(config, now, signal.timestamp)

RECURSIVE TotalRawWeight(_, _, _)
TotalRawWeight(config, now, signals) ==
    IF signals = <<>> THEN 0
    ELSE SignalWeight(config, now, Head(signals))
           + TotalRawWeight(config, now, Tail(signals))

\* logits = -3.0, then += signal_weight * 0.1 per signal; millionths
LogitBias == -3000000
\* the accumulation started from 0 instead of the bias
RECURSIVE SignalLogitsNoBias(_, _, _)
SignalLogitsNoBias(config, now, signals) ==
    IF signals = <<>> THEN 0
    ELSE SignalLogitsNoBias(config, now, SubSeq(signals, 1, Len(signals) - 1))
           + (SignalWeight(config, now, signals[Len(signals)]) \div 10)

RECURSIVE SignalLogits(_, _, _)
SignalLogits(config, now, signals) ==
    IF signals = <<>> THEN LogitBias
    ELSE SignalLogits(config, now, SubSeq(signals, 1, Len(signals) - 1))
           + (SignalWeight(config, now, signals[Len(signals)]) \div 10)

\* the committee window: 30 days
CommitteeWindow == 30

\* the committee loop with the scored user counted like anybody else
RECURSIVE ActiveUsersAll(_, _, _)
ActiveUsersAll(current_user_id, now, company_signals) ==
    IF company_signals = <<>> THEN {}
    ELSE LET signal == Head(company_signals)
             rest   == ActiveUsersAll(current_user_id, now, Tail(company_signals))
         IN  IF signal.timestamp > now - CommitteeWindow
             THEN rest \cup {signal.user_id}
             ELSE rest

\* the loop of detect_buying_committee: the set active_users
RECURSIVE ActiveUsers(_, _, _)
ActiveUsers(current_user_id, now, company_signals) ==
    IF company_signals = <<>> THEN {}
    ELSE LET signal == Head(company_signals)
             rest   == ActiveUsers(current_user_id, now, Tail(company_signals))
         IN  IF /\ signal.timestamp > now - CommitteeWindow
                /\ signal.user_id # current_user_id
             THEN rest \cup {signal.user_id}
             ELSE rest

\* multiplier in tenths: 1.0, 1.2, 1.5
detect_buying_committee(current_user_id, now, company_signals) ==
    IF company_signals = <<>> THEN 10
    ELSE LET n == Cardinality(ActiveUsers(current_user_id, now, company_signals))
         IN  IF n >= 1 THEN (IF n >= 2 THEN 15 ELSE 12) ELSE 10

\* floor(2000 * p) >= k  iff  logit x >= SigmoidCut[k]  (x in millionths)
SigmoidCut ==
  <<
     -7600402, -6906754, -6500789, -6212606, -5988961, -5806138, -5651486, -5517452, -5399167, -5293304,
     -5197492, -5109977, -5029431, -4954820, -4885323, -4820281, -4759152, -4701489, -4646918, -4595119,
     -4545824, -4498799, -4453841, -4410776, -4369447, -4329720, -4291473, -4254599, -4219000, -4184591,
     -4151293, -4119037, -4087757, -4057395, -4027899, -3999219, -3971311, -3944133, -3917648, -3891820,
     -3866617, -3842009, -3817967, -3794467, -3771482, -3748992, -3726974, -3705408, -3684277, -3663561,
     -3643246, -3623314, -3603753, -3584547, -3565684, -3547151, -3528937, -3511030, -3493421, -3476098,
     -3459053, -3442277, -3425760, -3409496, -3393475, -3377690, -3362135, -3346803, -3331686, -3316780,
     -3302077, -3287572, -3273260, -3259135, -3245193, -3231428, -3217836, -3204412, -3191153, -3178053,
     -3165110, -3152319, -3139676, -3127178, -3114821, -3102603, -3090519, -3078568, -3066745, -3055048,
     -3043475, -3032022, -3020687, -3009467, -2998360, -2987364, -2976475, -2965693, -2955015, -2944438,
     -2933962, -2923583, -2913299, -2903110, -2893013, -2883007, -2873089, -2863258, -2853513, -2843851,
     -2834272, -2824774, -2815355, -2806015, -2796750, -2787562, -2778447, -2769405, -2760435, -2751535,
     -2742704, -2733941, -2725245, -2716615, -2708050, -2699548, -2691109, -2682732, -2674415, -2666159,
     -2657961, -2649821, -2641739, -2633712, -2625741, -2617825, -2609962, -2602152, -2594395, -2586689,
     -2579034, -2571428, -2563872, -2556365, -2548906, -2541494, -2534128, -2526809, -2519535, -2512305,
     -2505120, -2497978, -2490880, -2483823, -2476809, -2469836, -2462904, -2456012, -2449159, -2442347,
     -2435572, -2428836, -2422138, -2415478, -2408854, -2402266, -2395715, -2389199, -2382718, -2376272,
     -2369861, -2363483, -2357138, -2350827, -2344549, -2338303, -2332089, -2325906, -2319755, -2313634,
     -2307545, -2301485, -2295455, -2289455, -2283484, -2277542, -2271629, -2265744, -2259887, -2254058,
     -2248256, -2242481, -2236733, -2231011, -2225316, -2219647, -2214003, -2208385, -2202792, -2197224,
     -2191681, -2186162, -2180667, -2175197, -2169750, -2164326, -2158926, -2153549, -2148195, -2142863,
     -2137553, -2132266, -2127001, -2121757, -2116535, -2111334, -2106155, -2100996, -2095858, -2090741,
     -2085643, -2080567, -2075510, -2070472, -2065455, -2060457, -2055478, -2050518, -2045577, -2040655,
     -2035751, -2030866, -2026000, -2021151, -2016320, -2011507, -2006712, -2001934, -1997173, -1992430,
     -1987703, -1982994, -1978301, -1973625, -1968965, -1964322, -1959695, -1955084, -1950489, -1945910,
     -1941346, -1936798, -1932265, -1927748, -1923246, -1918759, -1914286, -1909829, -1905386, -1900958,
     -1896545, -1892145, -1887760, -1883389, -1879032, -1874689, -1870360, -1866045, -1861743, -1857454,
     -1853179, -1848917, -1844669, -1840433, -1836211, -1832001, -1827804, -1823620, -1819449, -1815289,
     -1811143, -1807009, -1802886, -1798777, -1794679, -1790593, -1786519, -1782457, -1778406, -1774367,
     -1770340, -1766324, -1762320, -1758326, -1754345, -1750374, -1746414, -1742465, -1738528, -1734601,
     -1730684, -1726779, -1722884, -1719000, -1715126, -1711262, -1707409, -1703566, -1699734, -1695911,
     -1692099, -1688296, -1684503, -1680721, -1676948, -1673184, -1669431, -1665687, -1661953, -1658228,
     -1654512, -1650806, -1647109, -1643421, -1639743, -1636073, -1632413, -1628762, -1625119, -1621486,
     -1617861, -1614245, -1610638, -1607039, -1603449, -1599868, -1596295, -1592731, -1589175, -1585627,
     -1582087, -1578556, -1575033, -1571518, -1568011, -1564513, -1561022, -1557539, -1554064, -1550597,
     -1547138, -1543686, -1540242, -1536806, -1533377, -1529956, -1526543, -1523137, -1519738, -1516347,
     -1512963, -1509587, -1506217, -1502855, -1499500, -1496152, -1492812, -1489478, -1486151, -1482832,
     -1479519, -1476213, -1472914, -1469622, -1466337, -1463058, -1459786, -1456521, -1453262, -1450010,
     -1446764, -1443525, -1440292, -1437066, -1433846, -1430633, -1427426, -1424225, -1421031, -1417842,
     -1414660, -1411484, -1408314, -1405150, -1401993, -1398841, -1395695, -1392556, -1389422, -1386294,
     -1383172, -1380056, -1376945, -1373840, -1370741, -1367648, -1364561, -1361479, -1358402, -1355332,
     -1352266, -1349207, -1346153, -1343104, -1340061, -1337023, -1333990, -1330963, -1327941, -1324925,
     -1321914, -1318908, -1315907, -1312911, -1309921, -1306936, -1303955, -1300980, -1298010, -1295045,
     -1292085, -1289130, -1286180, -1283235, -1280295, -1277359, -1274429, -1271503, -1268582, -1265666,
     -1262754, -1259848, -1256946, -1254049, -1251156, -1248268, -1245385, -1242506, -1239632, -1236762,
     -1233897, -1231036, -1228180, -1225329, -1222481, -1219638, -1216800, -1213966, -1211136, -1208311,
     -1205490, -1202673, -1199860, -1197052, -1194248, -1191448, -1188652, -1185861, -1183073, -1180290,
     -1177511, -1174735, -1171964, -1169197, -1166434, -1163675, -1160920, -1158169, -1155422, -1152679,
     -1149940, -1147204, -1144473, -1141745, -1139021, -1136301, -1133585, -1130873, -1128164, -1125459,
     -1122758, -1120060, -1117367, -1114676, -1111990, -1109307, -1106628, -1103952, -1101280, -1098612,
     -1095947, -1093286, -1090628, -1087973, -1085323, -1082675, -1080031, -1077391, -1074754, -1072120,
     -1069490, -1066863, -1064240, -1061619, -1059003, -1056389, -1053779, -1051172, -1048568, -1045968,
     -1043371, -1040777, -1038186, -1035599, -1033015, -1030433, -1027855, -1025281, -1022709, -1020140,
     -1017575, -1015012, -1012453, -1009897, -1007343, -1004793, -1002246, -999702, -997160, -994622,
     -992087, -989554, -987025, -984498, -981975, -979454, -976936, -974421, -971909, -969400,
     -966894, -964390, -961889, -959391, -956896, -954404, -951914, -949427, -946943, -944461,
     -941982, -939506, -937033, -934562, -932094, -929628, -927166, -924705, -922248, -919793,
     -917340, -914891, -912443, -909999, -907557, -905117, -902680, -900245, -897813, -895384,
     -892956, -890532, -888110, -885690, -883272, -880858, -878445, -876035, -873627, -871222,
     -868819, -866418, -864020, -861624, -859231, -856839, -854450, -852064, -849679, -847297,
     -844918, -842540, -840165, -837792, -835421, -833052, -830686, -828321, -825959, -823600,
     -821242, -818886, -816533, -814182, -811833, -809486, -807141, -804798, -802457, -800119,
     -797782, -795448, -793115, -790785, -788457, -786131, -783806, -781484, -779164, -776846,
     -774529, -772215, -769903, -767593, -765284, -762978, -760673, -758371, -756070, -753771,
     -751474, -749180, -746886, -744595, -742306, -740018, -737733, -735449, -733167, -730887,
     -728609, -726332, -724058, -721785, -719514, -717244, -714977, -712711, -710447, -708185,
     -705924, -703665, -701408, -699153, -696899, -694647, -692397, -690148, -687901, -685656,
     -683412, -681170, -678930, -676692, -674455, -672219, -669985, -667753, -665523, -663294,
     -661066, -658841, -656616, -654394, -652173, -649953, -647735, -645519, -643304, -641090,
     -638878, -636668, -634459, -632252, -630046, -627842, -625639, -623437, -621237, -619039,
     -616842, -614646, -612452, -610259, -608068, -605878, -603689, -601502, -599316, -597132,
     -594949, -592767, -590587, -588408, -586231, -584055, -581880, -579707, -577534, -575364,
     -573194, -571026, -568859, -566694, -564529, -562366, -560205, -558044, -555885, -553727,
     -551571, -549415, -547261, -545108, -542956, -540806, -538657, -536509, -534362, -532216,
     -530072, -527929, -525787, -523646, -521506, -519368, -517230, -515094, -512959, -510825,
     -508692, -506561, -504430, -502301, -500173, -498045, -495919, -493794, -491671, -489548,
     -487426, -485305, -483186, -481067, -478950, -476834, -474718, -472604, -470491, -468378,
     -466267, -464157, -462048, -459940, -457833, -455726, -453621, -451517, -449414, -447312,
     -445210, -443110, -441011, -438913, -436815, -434719, -432623, -430529, -428435, -426342,
     -424250, -422159, -420069, -417980, -415892, -413805, -411719, -409633, -407548, -405465,
     -403382, -401300, -399218, -397138, -395059, -392980, -390902, -388825, -386749, -384674,
     -382599, -380526, -378453, -376381, -374309, -372239, -370169, -368100, -366032, -363965,
     -361898, -359832, -357767, -355703, -353640, -351577, -349515, -347453, -345393, -343333,
     -341274, -339215, -337157, -335100, -333044, -330989, -328934, -326879, -324826, -322773,
     -320721, -318669, -316618, -314568, -312518, -310470, -308421, -306374, -304327, -302280,
     -300235, -298190, -296145, -294101, -292058, -290015, -287973, -285932, -283891, -281851,
     -279811, -277772, -275733, -273695, -271658, -269621, -267585, -265549, -263514, -261479,
     -259445, -257412, -255378, -253346, -251314, -249282, -247251, -245221, -243191, -241162,
     -239133, -237104, -235076, -233049, -231022, -228995, -226969, -224943, -222918, -220893,
     -218869, -216845, -214822, -212799, -210776, -208754, -206733, -204711, -202691, -200670,
     -198650, -196631, -194611, -192593, -190574, -188556, -186539, -184521, -182504, -180488,
     -178472, -176456, -174441, -172425, -170411, -168396, -166382, -164369, -162355, -160342,
     -158329, -156317, -154305, -152293, -150282, -148271, -146260, -144249, -142239, -140229,
     -138219, -136210, -134201, -132192, -130183, -128175, -126167, -124159, -122151, -120144,
     -118137, -116130, -114123, -112117, -110111, -108105, -106099, -104093, -102088, -100083,
     -98078, -96073, -94069, -92064, -90060, -88056, -86053, -84049, -82045, -80042,
     -78039, -76036, -74033, -72031, -70028, -68026, -66023, -64021, -62019, -60018,
     -58016, -56014, -54013, -52011, -50010, -48009, -46008, -44007, -42006, -40005,
     -38004, -36003, -34003, -32002, -30002, -28001, -26001, -24001, -22000, -20000,
     -18000, -16000, -14000, -12000, -10000, -8000, -6000, -4000, -2000, 0,
     2001, 4001, 6001, 8001, 10001, 12001, 14001, 16001, 18001, 20001,
     22001, 24002, 26002, 28002, 30003, 32003, 34004, 36004, 38005, 40006,
     42007, 44008, 46009, 48010, 50011, 52012, 54014, 56015, 58017, 60019,
     62020, 64022, 66024, 68027, 70029, 72032, 74034, 76037, 78040, 80043,
     82046, 84050, 86054, 88057, 90061, 92065, 94070, 96074, 98079, 100084,
     102089, 104094, 106100, 108106, 110112, 112118, 114124, 116131, 118138, 120145,
     122152, 124160, 126168, 128176, 130184, 132193, 134202, 136211, 138220, 140230,
     142240, 144250, 146261, 148272, 150283, 152294, 154306, 156318, 158330, 160343,
     162356, 164370, 166383, 168397, 170412, 172426, 174442, 176457, 178473, 180489,
     182505, 184522, 186540, 188557, 190575, 192594, 194612, 196632, 198651, 200671,
     202692, 204712, 206734, 208755, 210777, 212800, 214823, 216846, 218870, 220894,
     222919, 224944, 226970, 228996, 231023, 233050, 235077, 237105, 239134, 241163,
     243192, 245222, 247252, 249283, 251315, 253347, 255379, 257413, 259446, 261480,
     263515, 265550, 267586, 269622, 271659, 273696, 275734, 277773, 279812, 281852,
     283892, 285933, 287974, 290016, 292059, 294102, 296146, 298191, 300236, 302281,
     304328, 306375, 308422, 310471, 312519, 314569, 316619, 318670, 320722, 322774,
     324827, 326880, 328935, 330990, 333045, 335101, 337158, 339216, 341275, 343334,
     345394, 347454, 349516, 351578, 353641, 355704, 357768, 359833, 361899, 363966,
     366033, 368101, 370170, 372240, 374310, 376382, 378454, 380527, 382600, 384675,
     386750, 388826, 390903, 392981, 395060, 397139, 399219, 401301, 403383, 405466,
     407549, 409634, 411720, 413806, 415893, 417981, 420070, 422160, 424251, 426343,
     428436, 430530, 432624, 434720, 436816, 438914, 441012, 443111, 445211, 447313,
     449415, 451518, 453622, 455727, 457834, 459941, 462049, 464158, 466268, 468379,
     470492, 472605, 474719, 476835, 478951, 481068, 483187, 485306, 487427, 489549,
     491672, 493795, 495920, 498046, 500174, 502302, 504431, 506562, 508693, 510826,
     512960, 515095, 517231, 519369, 521507, 523647, 525788, 527930, 530073, 532217,
     534363, 536510, 538658, 540807, 542957, 545109, 547262, 549416, 551572, 553728,
     555886, 558045, 560206, 562367, 564530, 566695, 568860, 571027, 573195, 575365,
     577535, 579708, 581881, 584056, 586232, 588409, 590588, 592768, 594950, 597133,
     599317, 601503, 603690, 605879, 608069, 610260, 612453, 614647, 616843, 619040,
     621238, 623438, 625640, 627843, 630047, 632253, 634460, 636669, 638879, 641091,
     643305, 645520, 647736, 649954, 652174, 654395, 656617, 658842, 661067, 663295,
     665524, 667754, 669986, 672220, 674456, 676693, 678931, 681171, 683413, 685657,
     687902, 690149, 692398, 694648, 696900, 699154, 701409, 703666, 705925, 708186,
     710448, 712712, 714978, 717245, 719515, 721786, 724059, 726333, 728610, 730888,
     733168, 735450, 737734, 740019, 742307, 744596, 746887, 749181, 751475, 753772,
     756071, 758372, 760674, 762979, 765285, 767594, 769904, 772216, 774530, 776847,
     779165, 781485, 783807, 786132, 788458, 790786, 793116, 795449, 797783, 800120,
     802458, 804799, 807142, 809487, 811834, 814183, 816534, 818887, 821243, 823601,
     825960, 828322, 830687, 833053, 835422, 837793, 840166, 842541, 844919, 847298,
     849680, 852065, 854451, 856840, 859232, 861625, 864021, 866419, 868820, 871223,
     873628, 876036, 878446, 880859, 883273, 885691, 888111, 890533, 892957, 895385,
     897814, 900246, 902681, 905118, 907558, 910000, 912444, 914892, 917341, 919794,
     922249, 924706, 927167, 929629, 932095, 934563, 937034, 939507, 941983, 944462,
     946944, 949428, 951915, 954405, 956897, 959392, 961890, 964391, 966895, 969401,
     971910, 974422, 976937, 979455, 981976, 984499, 987026, 989555, 992088, 994623,
     997161, 999703, 1002247, 1004794, 1007344, 1009898, 1012454, 1015013, 1017576, 1020141,
     1022710, 1025282, 1027856, 1030434, 1033016, 1035600, 1038187, 1040778, 1043372, 1045969,
     1048569, 1051173, 1053780, 1056390, 1059004, 1061620, 1064241, 1066864, 1069491, 1072121,
     1074755, 1077392, 1080032, 1082676, 1085324, 1087974, 1090629, 1093287, 1095948, 1098613,
     1101281, 1103953, 1106629, 1109308, 1111991, 1114677, 1117368, 1120061, 1122759, 1125460,
     1128165, 1130874, 1133586, 1136302, 1139022, 1141746, 1144474, 1147205, 1149941, 1152680,
     1155423, 1158170, 1160921, 1163676, 1166435, 1169198, 1171965, 1174736, 1177512, 1180291,
     1183074, 1185862, 1188653, 1191449, 1194249, 1197053, 1199861, 1202674, 1205491, 1208312,
     1211137, 1213967, 1216801, 1219639, 1222482, 1225330, 1228181, 1231037, 1233898, 1236763,
     1239633, 1242507, 1245386, 1248269, 1251157, 1254050, 1256947, 1259849, 1262755, 1265667,
     1268583, 1271504, 1274430, 1277360, 1280296, 1283236, 1286181, 1289131, 1292086, 1295046,
     1298011, 1300981, 1303956, 1306937, 1309922, 1312912, 1315908, 1318909, 1321915, 1324926,
     1327942, 1330964, 1333991, 1337024, 1340062, 1343105, 1346154, 1349208, 1352267, 1355333,
     1358403, 1361480, 1364562, 1367649, 1370742, 1373841, 1376946, 1380057, 1383173, 1386295,
     1389423, 1392557, 1395696, 1398842, 1401994, 1405151, 1408315, 1411485, 1414661, 1417843,
     1421032, 1424226, 1427427, 1430634, 1433847, 1437067, 1440293, 1443526, 1446765, 1450011,
     1453263, 1456522, 1459787, 1463059, 1466338, 1469623, 1472915, 1476214, 1479520, 1482833,
     1486152, 1489479, 1492813, 1496153, 1499501, 1502856, 1506218, 1509588, 1512964, 1516348,
     1519739, 1523138, 1526544, 1529957, 1533378, 1536807, 1540243, 1543687, 1547139, 1550598,
     1554065, 1557540, 1561023, 1564514, 1568012, 1571519, 1575034, 1578557, 1582088, 1585628,
     1589176, 1592732, 1596296, 1599869, 1603450, 1607040, 1610639, 1614246, 1617862, 1621487,
     1625120, 1628763, 1632414, 1636074, 1639744, 1643422, 1647110, 1650807, 1654513, 1658229,
     1661954, 1665688, 1669432, 1673185, 1676949, 1680722, 1684504, 1688297, 1692100, 1695912,
     1699735, 1703567, 1707410, 1711263, 1715127, 1719001, 1722885, 1726780, 1730685, 1734602,
     1738529, 1742466, 1746415, 1750375, 1754346, 1758327, 1762321, 1766325, 1770341, 1774368,
     1778407, 1782458, 1786520, 1790594, 1794680, 1798778, 1802887, 1807010, 1811144, 1815290,
     1819450, 1823621, 1827805, 1832002, 1836212, 1840434, 1844670, 1848918, 1853180, 1857455,
     1861744, 1866046, 1870361, 1874690, 1879033, 1883390, 1887761, 1892146, 1896546, 1900959,
     1905387, 1909830, 1914287, 1918760, 1923247, 1927749, 1932266, 1936799, 1941347, 1945911,
     1950490, 1955085, 1959696, 1964323, 1968966, 1973626, 1978302, 1982995, 1987704, 1992431,
     1997174, 2001935, 2006713, 2011508, 2016321, 2021152, 2026001, 2030867, 2035752, 2040656,
     2045578, 2050519, 2055479, 2060458, 2065456, 2070473, 2075511, 2080568, 2085644, 2090742,
     2095859, 2100997, 2106156, 2111335, 2116536, 2121758, 2127002, 2132267, 2137554, 2142864,
     2148196, 2153550, 2158927, 2164327, 2169751, 2175198, 2180668, 2186163, 2191682, 2197225,
     2202793, 2208386, 2214004, 2219648, 2225317, 2231012, 2236734, 2242482, 2248257, 2254059,
     2259888, 2265745, 2271630, 2277543, 2283485, 2289456, 2295456, 2301486, 2307546, 2313635,
     2319756, 2325907, 2332090, 2338304, 2344550, 2350828, 2357139, 2363484, 2369862, 2376273,
     2382719, 2389200, 2395716, 2402267, 2408855, 2415479, 2422139, 2428837, 2435573, 2442348,
     2449160, 2456013, 2462905, 2469837, 2476810, 2483824, 2490881, 2497979, 2505121, 2512306,
     2519536, 2526810, 2534129, 2541495, 2548907, 2556366, 2563873, 2571429, 2579035, 2586690,
     2594396, 2602153, 2609963, 2617826, 2625742, 2633713, 2641740, 2649822, 2657962, 2666160,
     2674416, 2682733, 2691110, 2699549, 2708051, 2716616, 2725246, 2733942, 2742705, 2751536,
     2760436, 2769406, 2778448, 2787563, 2796751, 2806016, 2815356, 2824775, 2834273, 2843852,
     2853514, 2863259, 2873090, 2883008, 2893014, 2903111, 2913300, 2923584, 2933963, 2944439,
     2955016, 2965694, 2976476, 2987365, 2998361, 3009468, 3020688, 3032023, 3043476, 3055049,
     3066746, 3078569, 3090520, 3102604, 3114822, 3127179, 3139677, 3152320, 3165111, 3178054,
     3191154, 3204413, 3217837, 3231429, 3245194, 3259136, 3273261, 3287573, 3302078, 3316781,
     3331687, 3346804, 3362136, 3377691, 3393476, 3409497, 3425761, 3442278, 3459054, 3476099,
     3493422, 3511031, 3528938, 3547152, 3565685, 3584548, 3603754, 3623315, 3643247, 3663562,
     3684278, 3705409, 3726975, 3748993, 3771483, 3794468, 3817968, 3842010, 3866618, 3891821,
     3917649, 3944134, 3971312, 3999220, 4027900, 4057396, 4087758, 4119038, 4151294, 4184592,
     4219001, 4254600, 4291474, 4329721, 4369448, 4410777, 4453842, 4498800, 4545825, 4595120,
     4646919, 4701490, 4759153, 4820282, 4885324, 4954821, 5029432, 5109978, 5197493, 5293305,
     5399168, 5517453, 5651487, 5806139, 5988962, 6212607, 6500790, 6906755, 7600403, 36736801
  >>

SigmoidClamp == 50000000

RECURSIVE CutSearch(_, _, _)
CutSearch(x, lo, hi) ==
    \* largest k in lo..hi with k = 0 or SigmoidCut[k] <= x, given lo qualifies
    IF lo = hi THEN lo
    ELSE LET mid == (lo + hi + 1) \div 2
         IN  IF SigmoidCut[mid] <= x THEN CutSearch(x, mid, hi)
                                     ELSE CutSearch(x, lo, mid - 1)

\* _sigmoid followed by * 100.0: the final score in twentieths of a point,
\* floor(20 * 100 / (1 + e^-x)), x clamped to [-50, 50]
Sigmoid(logits) ==
    LET x == IF logits > SigmoidClamp THEN SigmoidClamp
             ELSE IF logits < -SigmoidClamp THEN -SigmoidClamp ELSE logits
    IN  CutSearch(x, 0, Len(SigmoidCut))

\* _determine_label on the unrounded final score (twentieths against tenths)
determine_label(config, final_score) ==
    IF final_score >= 2 * config.high_threshold THEN "HIGH"
    ELSE IF final_score >= 2 * config.medium_threshold THEN "MEDIUM"
    ELSE "LOW"

\* round(x, 1) of a value in twentieths, as tenths
RoundScore(final_score) == (final_score + 1) \div 2

RECURSIVE SignalBreakdown(_, _, _)
SignalBreakdown(config, now, signals) ==
    IF signals = <<>> THEN <<>>
    ELSE <<[type |-> Head(signals).type,
            weight |-> (SignalWeight(config, now, Head(signals)) + 5000) \div 10000,
            decay |-> (calculate_decay(config, now, Head(signals).timestamp) + 5) \div 10,
            timestamp |-> Head(signals).timestamp]>>
         \o SignalBreakdown(config, now, Tail(signals))

\* step 2 of calculate_intent_score: committee_factor, in tenths
CommitteeFactor(config, now, lead, company_signals) ==
    IF lead # NoLead /\ HasCompany(lead) /\ company_signals # <<>>
    THEN detect_buying_committee(lead.user_id, now, company_signals)
    ELSE 10

LogitBoost(committee_factor) ==
    IF committee_factor > 10
    THEN (IF committee_factor >= 15 THEN 1500000 ELSE 800000)
    ELSE 0

calculate_intent_score(config, now, signals, lead, company_signals) ==
    LET total_raw_weight == TotalRawWeight(config, now, signals)
        committee_factor == CommitteeFactor(config, now, lead, company_signals)
        logits == SignalLogits(config, now, signals) + LogitBoost(committee_factor)
        final_score == Sigmoid(logits)
    IN  [score |-> RoundScore(final_score),
         label |-> determine_label(config, final_score),
         signals_score |-> (total_raw_weight + 50000) \div 100000,
         recency_factor |-> IF signals # <<>>
                            THEN calculate_decay(config, now, signals[1].timestamp)
                            ELSE 0,
         committee_factor |-> committee_factor,
         breakdown |-> [signals |-> SignalBreakdown(config, now, signals),
                        committee |-> [detected |-> committee_factor > 10,
                                       multiplier |-> committee_factor,
                                       logit_boost |-> LogitBoost(committee_factor)],
                        logits |-> (logits + 5000) \div 10000]]

\* ------------------------------------------------------------------------
\* Enrichment: LeadEnricher
\* ------------------------------------------------------------------------
\* a key that the profile_data dict does not have
Absent == <<"absent">>

\* dict.get(key) and dict.get(key, default)
Get(d, key) == IF d[key] = Absent THEN NoneStr ELSE d[key]
GetOr(d, key, default) == IF d[key] = Absent THEN default ELSE d[key]

Digits == <<"0", "1", "2", "3", "4", "5", "6", "7", "8", "9">>

IsDigit(c) == \E i \in DOMAIN Digits : Digits[i] = c
DigitValue(c) == (CHOOSE i \in DOMAIN Digits : Digits[i] = c) - 1

\* int(text) succeeds on a non-empty run of decimal digits
IsIntText(s) == s # NoneStr /\ s # <<>> /\ \A i \in DOMAIN s : IsDigit(s[i])

RECURSIVE IntOfText(_)
IntOfText(s) ==
    IF s = <<>> THEN 0
    ELSE 10 * IntOfText(SubSeq(s, 1, Len(s) - 1)) + DigitValue(s[Len(s)])

\* str.replace for single characters
ReplaceChar(s, from, to) == [i \in DOMAIN s |-> IF s[i] = from THEN to ELSE s[i]]

\* LinkedInURL.company
LinkedInURL_company(name) ==
    IF ~Truthy(name) THEN <<>>
    ELSE <<"h", "t", "t", "p", "s", ":", "/", "/", "l", "i", "n", "k", "e", "d", "i", "n", ".", "c", "o", "m", "/", "c", "o", "m", "p", "a", "n", "y", "/">> \o lower(ReplaceChar(name, " ", "-"))

\* LeadEnricher.INDUSTRY_KEYWORDS, in dict order, with each Industry's value
INDUSTRY_KEYWORDS ==
    << <<<<"s", "a", "a", "s">>, <<<<"s", "a", "a", "s">>, <<"s", "o", "f", "t", "w", "a", "r", "e", " ", "a", "s", " ", "a", " ", "s", "e", "r", "v", "i", "c", "e">>, <<"c", "l", "o", "u", "d", " ", "s", "o", "f", "t", "w", "a", "r", "e">>,
                       <<"s", "u", "b", "s", "c", "r", "i", "p", "t", "i", "o", "n", " ", "s", "o", "f", "t", "w", "a", "r", "e">>>> >>,
       <<<<"f", "i", "n", "t", "e", "c", "h">>, <<<<"f", "i", "n", "t", "e", "c", "h">>, <<"f", "i", "n", "a", "n", "c", "i", "a", "l", " ", "t", "e", "c", "h", "n", "o", "l", "o", "g", "y">>, <<"p", "a", "y", "m", "e", "n", "t", "s">>,
                          <<"b", "a", "n", "k", "i", "n", "g">>, <<"i", "n", "s", "u", "r", "a", "n", "c", "e", " ", "t", "e", "c", "h">>>> >>,
       <<<<"h", "e", "a", "l", "t", "h", "t", "e", "c", "h">>, <<<<"h", "e", "a", "l", "t", "h", "t", "e", "c", "h">>, <<"h", "e", "a", "l", "t", "h", " ", "t", "e", "c", "h">>, <<"m", "e", "d", "i", "c", "a", "l">>,
                             <<"h", "e", "a", "l", "t", "h", "c", "a", "r", "e">>, <<"b", "i", "o", "t", "e", "c", "h">>>> >>,
       <<<<"e", "c", "o", "m", "m", "e", "r", "c", "e">>, <<<<"e", "c", "o", "m", "m", "e", "r", "c", "e">>, <<"e", "-", "c", "o", "m", "m", "e", "r", "c", "e">>, <<"r", "e", "t", "a", "i", "l">>,
                            <<"m", "a", "r", "k", "e", "t", "p", "l", "a", "c", "e">>, <<"s", "h", "o", "p", "p", "i", "n", "g">>>> >>,
       <<<<"m", "a", "r", "t", "e", "c", "h">>, <<<<"m", "a", "r", "t", "e", "c", "h">>, <<"m", "a", "r", "k", "e", "t", "i", "n", "g", " ", "t", "e", "c", "h", "n", "o", "l", "o", "g", "y">>, <<"a", "d", "v", "e", "r", "t", "i", "s", "i", "n", "g">>,
                          <<"a", "d", "t", "e", "c", "h">>>> >>,
       <<<<"d", "e", "v", "t", "o", "o", "l", "s">>, <<<<"d", "e", "v", "t", "o", "o", "l", "s">>, <<"d", "e", "v", "e", "l", "o", "p", "e", "r", " ", "t", "o", "o", "l", "s">>, <<"d", "e", "v", "e", "l", "o", "p", "e", "r", " ", "p", "l", "a", "t", "f", "o", "r", "m">>,
                           <<"a", "p", "i">>>> >>,
       <<<<"s", "e", "c", "u", "r", "i", "t", "y">>, <<<<"s", "e", "c", "u", "r", "i", "t", "y">>, <<"c", "y", "b", "e", "r", "s", "e", "c", "u", "r", "i", "t", "y">>, <<"i", "n", "f", "o", "s", "e", "c">>,
                           <<"i", "d", "e", "n", "t", "i", "t", "y">>>> >>,
       <<<<"a", "i", "_", "m", "l">>, <<<<"a", "i">>, <<"a", "r", "t", "i", "f", "i", "c", "i", "a", "l", " ", "i", "n", "t", "e", "l", "l", "i", "g", "e", "n", "c", "e">>, <<"m", "a", "c", "h", "i", "n", "e", " ", "l", "e", "a", "r", "n", "i", "n", "g">>,
                        <<"m", "l">>, <<"d", "a", "t", "a", " ", "s", "c", "i", "e", "n", "c", "e">>>> >>,
       <<<<"e", "n", "t", "e", "r", "p", "r", "i", "s", "e">>, <<<<"e", "n", "t", "e", "r", "p", "r", "i", "s", "e">>, <<"b", "2", "b">>, <<"b", "u", "s", "i", "n", "e", "s", "s", " ", "s", "o", "f", "t", "w", "a", "r", "e">>>> >> >>

IndustryOther == <<"o", "t", "h", "e", "r">>

AnyContained(keywords, text) ==
    \E k \in DOMAIN keywords : Contains(keywords[k], text)

RECURSIVE DetectIndustryFrom(_, _)
DetectIndustryFrom(k, industry_lower) ==
    IF k > Len(INDUSTRY_KEYWORDS) THEN IndustryOther
    ELSE IF AnyContained(INDUSTRY_KEYWORDS[k][2], industry_lower)
         THEN INDUSTRY_KEYWORDS[k][1]
         ELSE DetectIndustryFrom(k + 1, industry_lower)

\* _detect_industry
detect_industry(industry_str) == DetectIndustryFrom(1, lower(industry_str))

\* Optional[SeniorityLevel] = None
NoLevel == "None"

\* _detect_seniority (the enricher's and the matcher's are the same code)
detect_seniority(title) ==
    LET title_lower == lower(title)
    IN  IF Contains(<<"d", "i", "r", "e", "c", "t", "o", "r">>, title_lower) THEN "DIRECTOR"
        ELSE IF AnyContained(<<<<"c", "e", "o">>, <<"c", "t", "o">>, <<"c", "f", "o">>, <<"c", "o", "o">>, <<"c", "h", "i", "e", "f">>,
                                <<"f", "o", "u", "n", "d", "e", "r">>, <<"c", "o", "-", "f", "o", "u", "n", "d", "e", "r">>>>, title_lower)
             THEN "C_LEVEL"
        ELSE IF AnyContained(<<<<"v", "p">>, <<"v", "i", "c", "e", " ", "p", "r", "e", "s", "i", "d", "e", "n", "t">>>>, title_lower) THEN "VP"
        ELSE IF AnyContained(<<<<"m", "a", "n", "a", "g", "e", "r">>, <<"l", "e", "a", "d">>, <<"h", "e", "a", "d">>>>, title_lower)
             THEN "MANAGER"
        ELSE "INDIVIDUAL_CONTRIBUTOR"

\* Optional[EnrichedContact] = None
NoContact == [absent |-> TRUE]

HasContact(lead) == lead.contact # NoContact

EnrichedContact(name, title, seniority_level) ==
    [name |-> name, title |-> title, seniority_level |-> seniority_level]

\* enrich_contact, called with a truthy URL and name/title keywords
enrich_contact(name, title) ==
    EnrichedContact(name, title,
                    IF Truthy(title) THEN detect_seniority(title) ELSE "UNKNOWN")

\* enrich_company, called with a truthy URL and name/website/industry/size
enrich_company(name, website, industry_str, size) ==
    EnrichedCompany(name, website,
                    IF Truthy(industry_str) THEN detect_industry(industry_str)
                                            ELSE IndustryOther,
                    size, <<>>, NoneStr)

EnrichedLead(user_id, contact, company) ==
    [user_id |-> user_id, contact |-> contact, company |-> company]

\* enrich_lead as process_lead calls it (no social data)
enrich_lead(user_id, linkedin_profile_url, linkedin_company_url, contact_data, company_data) ==
    EnrichedLead(user_id,
        IF Truthy(linkedin_profile_url)
        THEN enrich_contact(contact_data.name, contact_data.title)
        ELSE NoContact,
        IF Truthy(linkedin_company_url)
        THEN enrich_company(company_data.name, company_data.website,
                            company_data.industry, company_data.size)
        ELSE NoCompany)

\* ------------------------------------------------------------------------
\* Enrichment: ICPMatcher.  Dimension scores are in 1/10000, weights per
\* mille, the ICP score in tenths of a point.
\* ------------------------------------------------------------------------
ICPConfig(size_range, target_industries, target_tech_stack, min_funding_stage, weights) ==
    [size_range |-> size_range, target_industries |-> target_industries,
     target_tech_stack |-> target_tech_stack, min_funding_stage |-> min_funding_stage,
     weights |-> weights]

DefaultIcpWeights ==
    [size |-> 200, industry |-> 250, tech_stack |-> 150, funding |-> 150, authority |-> 250]

\* ICPConfig.validate: the weights present sum to 1.0 within a hundredth
RECURSIVE SumOver(_, _)
SumOver(f, keys) ==
    IF keys = {} THEN 0
    ELSE LET k == CHOOSE x \in keys : TRUE
         IN  f[k] + SumOver(f, keys \ {k})

validate(config) ==
    LET total == SumOver(config.weights, DOMAIN config.weights)
    IN  990 <= total /\ total <= 1010

\* weights.get(key, default)
WeightOr(weights, key, default) ==
    IF key \in DOMAIN weights THEN weights[key] ELSE default

DefaultICPConfig ==
    ICPConfig(<<50, 500>>, <<<<"s", "a", "a", "s">>, <<"f", "i", "n", "t", "e", "c", "h">>>>, <<>>, NoneStr, DefaultIcpWeights)

AUTHORITY_SCORES ==
    [l \in {"C_LEVEL", "VP", "DIRECTOR", "MANAGER", "INDIVIDUAL_CONTRIBUTOR", "UNKNOWN"} |->
        CASE l = "C_LEVEL" -> 10000
          [] l = "VP" -> 9000
          [] l = "DIRECTOR" -> 8000
          [] l = "MANAGER" -> 6000
          [] l = "INDIVIDUAL_CONTRIBUTOR" -> 3000
          [] l = "UNKNOWN" -> 2000]

FUNDING_SCORES ==
    << <<<<"p", "r", "e", "_", "s", "e", "e", "d">>, 3000>>, <<<<"s", "e", "e", "d">>, 4000>>, <<<<"s", "e", "r", "i", "e", "s", "_", "a">>, 6000>>,
       <<<<"s", "e", "r", "i", "e", "s", "_", "b">>, 8000>>, <<<<"s", "e", "r", "i", "e", "s", "_", "c">>, 9000>>, <<<<"s", "e", "r", "i", "e", "s", "_", "d">>, 9500>>,
       <<<<"i", "p", "o">>, 10000>>, <<<<"p", "u", "b", "l", "i", "c">>, 10000>> >>

\* FUNDING_SCORES.get(key, default)
FundingScoreOr(key, default) ==
    IF \E k \in DOMAIN FUNDING_SCORES : FUNDING_SCORES[k][1] = key
    THEN FUNDING_SCORES[CHOOSE k \in DOMAIN FUNDING_SCORES : FUNDING_SCORES[k][1] = key][2]
    ELSE default

\* the bounds of the range taken as outside the range
score_company_size_open_range(config, size) ==
    LET min_size == config.size_range[1]
        max_size == config.size_range[2]
    IN  IF size <= 0 THEN 0
        ELSE IF min_size < size /\ size < max_size THEN 10000
        ELSE IF size < min_size THEN (size * 10000) \div min_size
        ELSE IF max_size <= 0 THEN 0
        ELSE (max_size * 10000) \div size

score_company_size(config, size) ==
    LET min_size == config.size_range[1]
        max_size == config.size_range[2]
    IN  IF size <= 0 THEN 0
        ELSE IF min_size <= size /\ size <= max_size THEN 10000
        ELSE IF size < min_size THEN (size * 10000) \div min_size
        ELSE IF max_size <= 0 THEN 0
        ELSE (max_size * 10000) \div size

score_industry(config, industry) ==
    LET targets == config.target_industries
    IN  IF \/ \E k \in DOMAIN targets : targets[k] = industry
           \/ \E k \in DOMAIN targets : lower(targets[k]) = lower(industry)
        THEN 10000 ELSE 0

score_tech_stack(config, tech_stack) ==
    LET targets == config.target_tech_stack
        tech_lower    == {lower(tech_stack[k]) : k \in DOMAIN tech_stack}
        targets_lower == {lower(targets[k]) : k \in DOMAIN targets}
        ratio == (Cardinality(tech_lower \cap targets_lower) * 10000)
                    \div Cardinality(targets_lower)
    IN  IF targets = <<>> THEN 5000
        ELSE IF tech_stack = <<>> THEN 0
        ELSE IF ratio > 10000 THEN 10000 ELSE ratio

StageKey(stage) == ReplaceChar(ReplaceChar(lower(stage), "-", "_"), " ", "_")

score_funding(config, funding_stage) ==
    LET stage_score == FundingScoreOr(StageKey(funding_stage), 4000)
        min_stage   == config.min_funding_stage
    IN  IF ~Truthy(funding_stage) THEN 3000
        ELSE IF Truthy(min_stage) /\ stage_score < FundingScoreOr(StageKey(min_stage), 0)
             THEN 0
        ELSE stage_score

\* returns <<authority_label, authority_score>>
score_authority(title, seniority_level) ==
    LET level == IF seniority_level # NoLevel THEN seniority_level
                 ELSE IF Truthy(title) THEN detect_seniority(title)
                 ELSE "UNKNOWN"
    IN  << IF level \in {"C_LEVEL", "VP", "DIRECTOR"} THEN "decision_maker"
                                                       ELSE "influencer",
           AUTHORITY_SCORES[level] >>

\* round(x, 2) of a dimension score, in hundredths
Round2(x) == (x + 50) \div 100

calculate_icp_score(config, lead) ==
    LET size_score     == IF HasCompany(lead)
                          THEN score_company_size(config, lead.company.size) ELSE 0
        industry_score == IF HasCompany(lead)
                          THEN score_industry(config, lead.company.industry) ELSE 0
        tech_score     == IF HasCompany(lead)
                          THEN score_tech_stack(config, lead.company.tech_stack) ELSE 5000
        funding_score  == IF HasCompany(lead)
                          THEN score_funding(config, lead.company.funding_stage) ELSE 3000
        authority      == IF HasContact(lead)
                          THEN score_authority(lead.contact.title, lead.contact.seniority_level)
                          ELSE <<"unknown", 2000>>
        weights        == config.weights
        weighted_score == size_score * WeightOr(weights, "size", 200)
                          + industry_score * WeightOr(weights, "industry", 250)
                          + tech_score * WeightOr(weights, "tech_stack", 150)
                          + funding_score * WeightOr(weights, "funding", 150)
                          + authority[2] * WeightOr(weights, "authority", 250)
    IN  [icp_score |-> (weighted_score + 5000) \div 10000,
         breakdown |-> [size |-> Round2(size_score), industry |-> Round2(industry_score),
                        tech_stack |-> Round2(tech_score), funding |-> Round2(funding_score),
                        authority |-> Round2(authority[2])],
         authority_level |-> authority[1]]

\* ------------------------------------------------------------------------
\* Context: SenderProfile, SemanticMatcher, AttentionSignalWeighter
\*
\* The vectors are placeholders drawn from numpy's global generator.  The
\* generator is a state in 0..RngStates-1: a draw returns the state and
\* advances it, np.random.seed(n) sets it.  A vector is named by the draw
\* that produced it.
\* ------------------------------------------------------------------------
\* SenderProfile.embedding = None
NoEmbedding == -1

RngNext(rng) == (rng + 1) % RngStates
RngSeed(n) == n % RngStates

\* SenderProfile.target_industries of the sender the engine is built for
SenderTargetIndustries == <<<<"f", "i", "n", "t", "e", "c", "h">>, <<"s", "e", "c", "u", "r", "i", "t", "y">>, <<"e", "n", "t", "e", "r", "p", "r", "i", "s", "e">>>>

\* a get_embedding that draws a new vector on every call
get_embedding_uncached(embedding, rng) ==
    <<rng, rng, RngNext(rng)>>

\* get_embedding: <<vector, embedding field afterwards, generator afterwards>>
get_embedding(embedding, rng) ==
    IF embedding = NoEmbedding
    THEN <<rng, rng, RngNext(rng)>>
    ELSE <<embedding, embedding, rng>>

IsTargetIndustry(lead) ==
    /\ HasCompany(lead)
    /\ Truthy(lead.company.industry)
    /\ \E k \in DOMAIN SenderTargetIndustries :
          SenderTargetIndustries[k] = lead.company.industry

\* cosine_similarity(sender_vec, lead_vec) * 1000, clipped at 0.  A lead of a
\* target industry is the sender vector plus small noise (similarity near
\* 1); any other lead is an unrelated uniform vector (similarity around
\* 0.75, scattered by the draw).
FitOfDraw(sender_vec, draw, is_target_industry) ==
    IF is_target_industry
    THEN 990 - ((sender_vec + draw) % RngStates)
    ELSE 720 + 45 * ((sender_vec + draw) % RngStates)

\* calculate_fit_score(lead) * 100 in tenths:
\* [fit, embedding afterwards, generator afterwards]
calculate_fit_score(embedding, rng, lead) ==
    LET sender == get_embedding(embedding, rng)
        draw   == sender[3]
    IN  [fit |-> FitOfDraw(sender[1], draw, IsTargetIndustry(lead)),
         embedding |-> sender[2],
         rng |-> RngNext(draw)]

Range(s) == {s[i] : i \in DOMAIN s}

\* _embed_signal reseeds the global generator with the signal's timestamp
\* and draws the signal's vector from it
RECURSIVE RngAfterEmbedding(_, _)
RngAfterEmbedding(rng, signals) ==
    IF signals = <<>> THEN rng
    ELSE RngAfterEmbedding(RngNext(RngSeed(Head(signals).timestamp)), Tail(signals))

\* the relevance of signals[i]: the attention weight, fixed by the vectors
\* of the list (seeded by the timestamps), the alignment boost of the
\* high-value types and the sender vector, times len(signals)
Relevance(signals, i, sender_vec) ==
    [seed |-> RngSeed(signals[i].timestamp),
     boosted |-> signals[i].type \in {"demo_request", "funding_round"},
     sender_vec |-> sender_vec,
     lift |-> Len(signals)]

\* AttentionSignalWeighter.forward:
\* [weights (a dict keyed by signal), embedding afterwards, generator afterwards]
attention_forward(embedding, rng, signals) ==
    IF signals = <<>>
    THEN [weights |-> <<>>, embedding |-> embedding, rng |-> rng]
    ELSE LET sender == get_embedding(embedding, rng)
             last(s) == CHOOSE i \in DOMAIN signals :
                           /\ signals[i] = s
                           /\ \A j \in DOMAIN signals : signals[j] = s => j <= i
         IN  [weights |-> [s \in Range(signals) |-> Relevance(signals, last(s), sender[1])],
              embedding |-> sender[2],
              rng |-> RngAfterEmbedding(sender[3], signals)]

\* ------------------------------------------------------------------------
\* Pipeline: SystemConfig and PipelineEngine
\* ------------------------------------------------------------------------
SystemConfig(min_intent, icp_engage, semantic_fit) ==
    [high_intent_threshold |-> 700, medium_intent_threshold |-> 300,
     icp_engage_threshold |-> icp_engage, semantic_fit_threshold |-> semantic_fit,
     min_intent_for_engagement |-> min_intent, decay_half_life |-> 7]

DefaultSystemConfig == SystemConfig(300, 800, 800)

\* the engine builds its scorer and matcher without passing a config
EngineScoringConfig ==
    ScoringConfig(DefaultHalfLife, DefaultHighThreshold, DefaultMediumThreshold)

\* what the secondary model does on a call: tokenization raises, inference
\* raises, or inference returns a probability (per mille)
NeuralOutcomes ==
    { [step |-> "tokenize", raises |-> TRUE, prob |-> 0],
      [step |-> "inference", raises |-> TRUE, prob |-> 0],
      [step |-> "inference", raises |-> FALSE, prob |-> 930] }

\* the outcome of a call that is not made because no model is loaded
NoNeural == [step |-> "none", raises |-> FALSE, prob |-> 0]

\* a neural_prob that keeps the model's output when the call raises
NeuralProbKept(model_loaded, outcome) ==
    IF model_loaded THEN (IF outcome.raises THEN 930 ELSE outcome.prob) ELSE 0

\* neural_prob: 0.0 unless a loaded model returns without raising
NeuralProb(model_loaded, outcome) ==
    IF model_loaded /\ ~outcome.raises THEN outcome.prob ELSE 0

\* the hybrid gate with the intent test admitting the threshold itself
ShouldEngageInclusive(config, intent_score, icp_score, semantic_fit) ==
    /\ intent_score >= config.min_intent_for_engagement
    /\ \/ icp_score >= config.icp_engage_threshold
       \/ semantic_fit >= config.semantic_fit_threshold

\* step 5 of process_lead: the hybrid decision
ShouldEngage(config, intent_score, icp_score, semantic_fit) ==
    LET is_intent_qualified == intent_score > config.min_intent_for_engagement
        is_fit_qualified == \/ icp_score >= config.icp_engage_threshold
                            \/ semantic_fit >= config.semantic_fit_threshold
    IN  is_intent_qualified /\ is_fit_qualified

NoDraft == [absent |-> TRUE]

RECURSIVE StrongestFirst(_, _)
\* sorted(signals, key=strength, reverse=True)[0]: the first signal of
\* maximal strength
StrongestFirst(signals, i) ==
    IF \A j \in DOMAIN signals : signals[j].strength <= signals[i].strength
    THEN signals[i]
    ELSE StrongestFirst(signals, i + 1)

\* ConversationStarter.generate_message: the context the message is built on
generate_message(lead, signals) ==
    [signal_type |-> IF signals = <<>> THEN "none" ELSE StrongestFirst(signals, 1).type,
     role_level |-> IF HasContact(lead) THEN lead.contact.seniority_level ELSE "unknown"]

\* a drafting step that calls the starter for every lead
DraftStepUnconditional(should_engage, lead, signals) ==
    [draft |-> generate_message(lead, signals), starter_calls |-> 1]

\* "Generate Draft if engaged": the draft of the result and the number of
\* calls of the starter
DraftStep(should_engage, lead, signals) ==
    IF should_engage
    THEN [draft |-> generate_message(lead, signals), starter_calls |-> 1]
    ELSE [draft |-> NoDraft, starter_calls |-> 0]

\* process_lead raises before anything is computed when int(company_size) fails
ProcessLeadRaises(profile_data) ==
    profile_data.company_size # Absent /\ ~IsIntText(profile_data.company_size)

\* process_lead(user_id, profile_data, signals) on an engine whose sender
\* embedding and generator are as given, with the secondary model behaving
\* as `outcome`; defined where ProcessLeadRaises is false.  Returns the result
\* dict and the embedding and generator it leaves behind.
process_lead(config, model_loaded, embedding, rng, now, user_id, profile_data, signals, outcome) ==
    LET company_url == IF Truthy(Get(profile_data, "linkedin_url"))
                       THEN Get(profile_data, "linkedin_url")
                       ELSE IF Truthy(Get(profile_data, "company_name"))
                            THEN LinkedInURL_company(profile_data.company_name)
                            ELSE Get(profile_data, "linkedin_url")
        lead == enrich_lead(user_id, Get(profile_data, "linkedin_url"), company_url,
                    [name  |-> GetOr(profile_data, "name", <<"U", "n", "k", "n", "o", "w", "n">>),
                     title |-> GetOr(profile_data, "title", <<"U", "n", "k", "n", "o", "w", "n">>)],
                    [name     |-> GetOr(profile_data, "company_name", <<"U", "n", "k", "n", "o", "w", "n">>),
                     website  |-> Get(profile_data, "company_domain"),
                     industry |-> GetOr(profile_data, "industry", <<"s", "a", "a", "s">>),
                     size     |-> IF profile_data.company_size = Absent THEN 1
                                  ELSE IntOfText(profile_data.company_size)])
        icp_result == calculate_icp_score(DefaultICPConfig, lead)
        icp_score == icp_result.icp_score
        semantic == calculate_fit_score(embedding, rng, lead)
        semantic_fit == semantic.fit
        intent_result == calculate_intent_score(EngineScoringConfig, now, signals, lead, <<>>)
        neural_prob == NeuralProb(model_loaded, outcome)
        attention == attention_forward(semantic.embedding, semantic.rng, signals)
        should_engage == ShouldEngage(config, intent_result.score, icp_score, semantic_fit)
        drafting == DraftStep(should_engage, lead, signals)
    IN  [result |->
            [lead |-> lead,
             icp |-> [score |-> icp_score, breakdown |-> icp_result.breakdown,
                      authority |-> icp_result.authority_level],
             semantic |-> [score |-> semantic_fit],
             intent |-> [score |-> intent_result.score, label |-> intent_result.label,
                         signals |-> Len(signals), neural_prob |-> neural_prob,
                         attention_weights |-> attention.weights],
             decision |-> [should_engage |-> should_engage,
                           reason |-> IF should_engage THEN "Qualified"
                                                       ELSE "Low Intent/Fit"],
             draft |-> drafting.draft],
         starter_calls |-> drafting.starter_calls,
         embedding |-> attention.embedding,
         rng |-> attention.rng]

\* ------------------------------------------------------------------------
\* State
\* ------------------------------------------------------------------------
VARIABLES
    filter_config,    \* HighIntentFilter.config
    filter_call,      \* the last evaluate_lead call: arguments and decision
    scorer_config,    \* IntentScorer.config
    score_call,       \* the last call on the IntentScorer: arguments and result
    prev_call,        \* the scoring of the same lead before its inputs changed
    system_config,    \* PipelineEngine.config
    model_loaded,     \* PipelineEngine.model is not None
    sender_embedding, \* SenderProfile.embedding (memoized by get_embedding)
    np_random,        \* state of numpy's global random generator
    driver,           \* the batch program running the engine
    batch,            \* the leads of the batch, in processing order
    outcomes,         \* what process_lead returned for the leads processed so far
    run_status,       \* "running", "done", "aborted" (error caught around
                      \* the loop) or "crashed" (error left the program)
    icp_config,       \* ICPMatcher.config
    icp_call,         \* the last call of an ICPMatcher method and its result
    icp_prev,         \* the call of an ICPMatcher method before the last one
    filter_prev,      \* the call of evaluate_lead that the last one repeated
    signal_events,    \* the SignalEvent objects that exist, in order of creation
    signal_call,      \* the last operation on signal events and its outcome
    enrich_call,      \* the last call of an enrichment operation and its outcome
    linkedin_signals, \* LinkedInSignalMonitor._signals: user id -> list of signals
    external_signals, \* ExternalSignalAggregator._signals: user id -> list
    monitor_call      \* the last call on a monitor or aggregator and its outcome

vars == <<filter_config, filter_call, scorer_config, score_call, prev_call,
          system_config, model_loaded, sender_embedding, np_random,
          driver, batch, outcomes, run_status, icp_config, icp_call, icp_prev,
          filter_prev, signal_events, signal_call, enrich_call,
          linkedin_signals, external_signals, monitor_call>>

filterVars == <<filter_config, filter_call, filter_prev>>
scorerVars == <<scorer_config, score_call, prev_call>>
engineVars == <<system_config, model_loaded, sender_embedding, np_random,
                driver, batch, outcomes, run_status>>
icpVars == <<icp_config, icp_call, icp_prev>>
signalVars == <<signal_events, signal_call>>
intakeVars == <<enrich_call, linkedin_signals, external_signals, monitor_call>>

NoCall == [called |-> FALSE]

\* ------------------------------------------------------------------------
\* Inputs of the filter
\* ------------------------------------------------------------------------
TxtCx    == <<"C", "x">>
TxtEx    == <<"e", "x">>
TxtAc    == <<"A", "c">>
TxtcXi   == <<"c", "X", "i">>
TxtSite  == <<"a", ".", "c">>
TxtSubEx == <<"s", ".", "E", "X">>
TxtSaas  == <<"s", "a", "a", "s">>

FilterConfigs ==
    { EngagementConfig(700, 800, <<>>, <<>>),
      EngagementConfig(700, 800, <<TxtEx>>, <<TxtCx>>),
      EngagementConfig(500, 600, <<TxtEx>>, <<TxtCx>>) }

FilterLeads ==
    { [user_id |-> "u1", contact |-> NoContact, company |-> NoCompany] }
    \cup { [user_id |-> "u1", contact |-> NoContact,
               company |-> EnrichedCompany(n, w, TxtSaas, 100, <<>>, NoneStr)] :
             n \in {TxtAc, TxtcXi}, w \in {NoneStr, <<>>, TxtSite, TxtSubEx} }

FilterIntentScores == {499, 500, 699, 700, 900}
FilterIcpScores == {599, 600, 799, 800, 900}

FilterIdle ==
    /\ filter_config \in {EngagementConfig(700, 800, <<>>, <<>>)}
    /\ filter_call = NoCall
    /\ filter_prev = NoCall

\* the user ids a monitor can hold signals for; a key the defaultdict does
\* not have reads as the empty list
StoreUsers == {"u1", "u2", "company:c1"}

EmptyStore == [u \in StoreUsers |-> <<>>]

IntakeIdle ==
    /\ enrich_call = NoCall
    /\ linkedin_signals = EmptyStore
    /\ external_signals = EmptyStore
    /\ monitor_call = NoCall

SignalIdle ==
    /\ signal_events = <<>>
    /\ signal_call = NoCall

EngineIdle ==
    /\ system_config = DefaultSystemConfig
    /\ model_loaded = FALSE
    /\ sender_embedding = NoEmbedding
    /\ np_random = 0
    /\ driver = "ingest_csv"
    /\ batch = <<>>
    /\ outcomes = <<>>
    /\ run_status = "done"

IcpIdle ==
    /\ icp_config = DefaultICPConfig
    /\ icp_call = NoCall
    /\ icp_prev = NoCall

ScorerIdle ==
    /\ scorer_config = ScoringConfig(DefaultHalfLife, DefaultHighThreshold,
                                     DefaultMediumThreshold)
    /\ score_call = NoCall
    /\ prev_call = NoCall

\* ------------------------------------------------------------------------
\* HighIntentFilter.evaluate_lead as an operation
\* ------------------------------------------------------------------------
\* evaluate_lead raising its intent minimum each time it engages a lead
EvaluateLeadThrottling ==
    /\ \E lead \in FilterLeads, s \in FilterIntentScores, icp \in FilterIcpScores :
          LET decision == evaluate_lead(filter_config, lead, [score |-> s], icp)
          IN  /\ filter_call' = [called |-> TRUE, lead |-> lead,
                                 intent_score |-> [score |-> s], icp_score_val |-> icp,
                                 decision |-> decision]
              /\ filter_config' =
                    IF decision.should_engage
                    THEN [filter_config EXCEPT !.min_intent_score = @ + 1]
                    ELSE filter_config
    /\ filter_prev' = NoCall
    /\ UNCHANGED <<intakeVars, scorerVars, engineVars, icpVars, signalVars>>

EvaluateLead ==
    /\ \E lead \in FilterLeads, s \in FilterIntentScores, icp \in FilterIcpScores :
          filter_call' = [called |-> TRUE, lead |-> lead, intent_score |-> [score |-> s],
                          icp_score_val |-> icp,
                          decision |-> evaluate_lead(filter_config, lead, [score |-> s], icp)]
    /\ filter_prev' = NoCall
    /\ UNCHANGED <<intakeVars, filter_config, scorerVars, engineVars, icpVars, signalVars>>

\* evaluate_lead called once more with the arguments of the last call
EvaluateLeadAgain ==
    /\ filter_call.called
    /\ filter_call' = [called |-> TRUE, lead |-> filter_call.lead,
                       intent_score |-> filter_call.intent_score,
                       icp_score_val |-> filter_call.icp_score_val,
                       decision |-> evaluate_lead(filter_config, filter_call.lead,
                                                  filter_call.intent_score,
                                                  filter_call.icp_score_val)]
    /\ filter_prev' = filter_call
    /\ UNCHANGED <<intakeVars, filter_config, scorerVars, engineVars, icpVars, signalVars>>

FilterInit ==
    /\ IntakeIdle
    /\ filter_config \in FilterConfigs
    /\ filter_call = NoCall
    /\ filter_prev = NoCall
    /\ ScorerIdle
    /\ EngineIdle
    /\ IcpIdle
    /\ SignalIdle

FilterNext == EvaluateLead \/ EvaluateLeadAgain

FilterSpec == FilterInit /\ [][FilterNext]_vars

\* the exclusion rules as stated: competitor name in the company name, or
\* excluded domain in the company website
ExclusionRuleMatches(config, lead) ==
    /\ HasCompany(lead)
    /\ \/ CompetitorHit(config, lower(lead.company.name))
       \/ /\ Truthy(lead.company.website)
          /\ DomainHit(config, lower(lead.company.website))

\* C2: a lead whose company name contains a competitor, or whose website
\* contains an excluded domain, is never engaged and gets priority LOW,
\* whatever the scores and whether or not a website is present; a competitor
\* match is reported as "Competitor detected".
C2_ExcludedLeadNotEngaged ==
    filter_call.called =>
        LET lead == filter_call.lead
            d    == filter_call.decision
        IN  ExclusionRuleMatches(filter_config, lead) =>
               /\ d.should_engage = FALSE
               /\ d.priority = "LOW"
               /\ CompetitorHit(filter_config, lower(lead.company.name))
                     => d.reason.detail = "Competitor detected"

\* C3: should_engage is true iff no exclusion rule matches and both scores
\* reach their minimum; an engaged lead has priority HIGH and the reason
\* "High Intent + High ICP Match"; HIGH never comes with should_engage false.
C3_EngageIffQualified ==
    filter_call.called =>
        LET lead == filter_call.lead
            d    == filter_call.decision
        IN  /\ d.should_engage <=>
                  /\ ~ExclusionRuleMatches(filter_config, lead)
                  /\ filter_call.intent_score.score >= filter_config.min_intent_score
                  /\ filter_call.icp_score_val >= filter_config.min_icp_score
            /\ d.should_engage =>
                  /\ d.priority = "HIGH"
                  /\ d.reason.text = "High Intent + High ICP Match"
            /\ d.priority = "HIGH" => d.should_engage

\* C4: with no exclusion rule matching, an ICP score below the minimum gives
\* LOW with a reason naming the ICP score (also when the intent score fails
\* too), and MEDIUM with a reason naming the intent score is given exactly
\* when the ICP score passes and the intent score alone fails.
C4_PriorityOfRejection ==
    filter_call.called =>
        LET lead     == filter_call.lead
            d        == filter_call.decision
            intent   == filter_call.intent_score.score
            icp      == filter_call.icp_score_val
            icp_low  == icp < filter_config.min_icp_score
            int_low  == intent < filter_config.min_intent_score
        IN  ~ExclusionRuleMatches(filter_config, lead) =>
               /\ icp_low => /\ d.priority = "LOW"
                             /\ d.reason.text = "ICP Score"
                             /\ d.reason.value = icp
               /\ d.priority = "MEDIUM" <=> (~icp_low /\ int_low)
               /\ d.priority = "MEDIUM" => /\ d.reason.text = "Intent Score"
                                           /\ d.reason.value = intent

\* both scores fail, nothing is excluded, and the verdict is LOW on ICP
C4_Witness ==
    /\ filter_call.called
    /\ ~ExclusionRuleMatches(filter_config, filter_call.lead)
    /\ filter_call.icp_score_val < filter_config.min_icp_score
    /\ filter_call.intent_score.score < filter_config.min_intent_score
    /\ filter_call.decision.priority = "LOW"

\* ------------------------------------------------------------------------
\* Inputs of the intent scorer
\* ------------------------------------------------------------------------
Users == {"u1", "u2", "u3"}

TxtLike  == <<"l", "i", "k", "e">>
TxtShare == <<"S", "h", "a", "r", "e">>
TxtVisit == <<"v", "i", "s", "i", "t">>
TxtSeed  == <<"s", "e", "e", "d">>

\* the scored lead's own signals
Signals ==
    { SignalEvent("role_change", "u1", Now, NoneStr, 861),
      SignalEvent("demo_request", "u1", Now + 1, NoneStr, 1000),
      SignalEvent("content_engagement", "u1", Now, TxtLike, 1000),
      SignalEvent("content_engagement", "u1", Now, TxtShare, 1000),
      SignalEvent("content_engagement", "u1", Now - 10, TxtLike, 300),
      SignalEvent("topic_interaction", "u1", Now - 3, NoneStr, 500),
      SignalEvent("profile_visit", "u1", Now, TxtVisit, 0),
      SignalEvent("funding_round", "u1", Now - 4, TxtSeed, 1000) }

ScorerConfigs ==
    { ScoringConfig(DefaultHalfLife, DefaultHighThreshold, DefaultMediumThreshold),
      ScoringConfig(DefaultHalfLife, 500, 200) }

ScorerLeads ==
    { NoLead,
      [user_id |-> "u1", contact |-> NoContact, company |-> NoCompany],
      [user_id |-> "u1", contact |-> NoContact,
       company |-> EnrichedCompany(TxtAc, TxtSite, TxtSaas, 100, <<>>, NoneStr)] }

\* signals of the lead's company, from the lead and from colleagues
CompanySignals ==
    { SignalEvent("profile_visit", u, t, NoneStr, 500) :
        u \in Users, t \in {Now + 1, Now - 29, Now - 30, Now - 31} }

RECURSIVE SeqsUpTo(_, _)
SeqsUpTo(S, n) ==
    IF n = 0 THEN {<<>>}
    ELSE LET shorter == SeqsUpTo(S, n - 1)
         IN  shorter \cup {Append(q, x) : q \in shorter, x \in S}

CompanySignalLists == SeqsUpTo(CompanySignals, MaxCompanySignals)

\* the company signal lists the growing-lead scenario switches between
FewCompanySignalLists ==
    { <<>>,
      <<SignalEvent("profile_visit", "u2", Now - 29, NoneStr, 500)>>,
      <<SignalEvent("profile_visit", "u2", Now - 29, NoneStr, 500),
        SignalEvent("profile_visit", "u3", Now + 1, NoneStr, 500)>>,
      <<SignalEvent("profile_visit", "u1", Now - 29, NoneStr, 500),
        SignalEvent("profile_visit", "u2", Now - 31, NoneStr, 500)>> }

IntentCall(signals, lead, company_signals) ==
    [op |-> "calculate_intent_score", called |-> TRUE,
     signals |-> signals, lead |-> lead, company_signals |-> company_signals,
     result |-> calculate_intent_score(scorer_config, Now, signals, lead, company_signals)]

IsIntentCall(c) == c.called /\ c.op = "calculate_intent_score"

\* ------------------------------------------------------------------------
\* IntentScorer operations
\* ------------------------------------------------------------------------
\* a lead is scored for the first time, before it has any signal
ScoreNew ==
    /\ score_call = NoCall
    /\ \E lead \in ScorerLeads, cs \in FewCompanySignalLists :
          score_call' = IntentCall(<<>>, lead, cs)
    /\ prev_call' = NoCall
    /\ UNCHANGED <<intakeVars, filterVars, scorer_config, engineVars, icpVars, signalVars>>

\* one more signal has arrived for the lead and it is scored again
ScoreAppended ==
    /\ IsIntentCall(score_call)
    /\ Len(score_call.signals) < MaxSignals
    /\ \E s \in Signals :
          score_call' = IntentCall(Append(score_call.signals, s), score_call.lead,
                                   score_call.company_signals)
    /\ prev_call' = score_call
    /\ UNCHANGED <<intakeVars, filterVars, scorer_config, engineVars, icpVars, signalVars>>

\* the company's signals have changed and the lead is scored again
ScoreCommittee ==
    /\ IsIntentCall(score_call)
    /\ \E cs \in FewCompanySignalLists \ {score_call.company_signals} :
          score_call' = IntentCall(score_call.signals, score_call.lead, cs)
    /\ prev_call' = score_call
    /\ UNCHANGED <<intakeVars, filterVars, scorer_config, engineVars, icpVars, signalVars>>

ScorerInit ==
    /\ IntakeIdle
    /\ FilterIdle
    /\ EngineIdle
    /\ IcpIdle
    /\ SignalIdle
    /\ scorer_config \in ScorerConfigs
    /\ score_call = NoCall
    /\ prev_call = NoCall

ScorerNext == ScoreNew \/ ScoreAppended \/ ScoreCommittee

ScorerSpec == ScorerInit /\ [][ScorerNext]_vars

\* detect_buying_committee called directly
DetectBuyingCommittee ==
    /\ score_call = NoCall
    /\ \E u \in Users, cs \in CompanySignalLists :
          score_call' = [op |-> "detect_buying_committee", called |-> TRUE,
                         current_user_id |-> u, company_signals |-> cs,
                         result |-> detect_buying_committee(u, Now, cs)]
    /\ prev_call' = NoCall
    /\ UNCHANGED <<intakeVars, filterVars, scorer_config, engineVars, icpVars, signalVars>>

\* calculate_intent_score called with the company's signals
ScoreCompany ==
    /\ score_call = NoCall
    /\ \E lead \in ScorerLeads, cs \in CompanySignalLists,
          signals \in {<<>>, <<SignalEvent("content_engagement", "u1", Now, TxtLike, 1000)>>} :
          score_call' = IntentCall(signals, lead, cs)
    /\ prev_call' = NoCall
    /\ UNCHANGED <<intakeVars, filterVars, scorer_config, engineVars, icpVars, signalVars>>

CommitteeNext == DetectBuyingCommittee \/ ScoreCompany

CommitteeSpec == ScorerInit /\ [][CommitteeNext]_vars

\* the users other than `user` with a company signal less than 30 days old
OtherActiveUsers(user, company_signals) ==
    { u \in Users \ {user} :
        \E i \in DOMAIN company_signals :
            /\ company_signals[i].user_id = u
            /\ Now - company_signals[i].timestamp < CommitteeWindow }

FactorFor(n) == IF n = 0 THEN 10 ELSE IF n = 1 THEN 12 ELSE 15

\* C8: detect_buying_committee returns 1.0, 1.2 or 1.5 for 0, 1, or 2 and more
\* distinct other users with a company signal inside the 30-day window; old
\* signals and the scored user's own signals never count; and the
\* committee_factor of calculate_intent_score is that value whenever a lead
\* with a company and company signals are supplied.
C8_CommitteeFactor ==
    /\ (score_call.called /\ score_call.op = "detect_buying_committee") =>
          score_call.result =
              FactorFor(Cardinality(OtherActiveUsers(score_call.current_user_id,
                                                     score_call.company_signals)))
    /\ (/\ IsIntentCall(score_call)
        /\ score_call.lead # NoLead
        /\ HasCompany(score_call.lead)
        /\ score_call.company_signals # <<>>) =>
          score_call.result.committee_factor =
              FactorFor(Cardinality(OtherActiveUsers(score_call.lead.user_id,
                                                     score_call.company_signals)))

\* a scoring with exactly one colleague active, where the lead's own signal
\* is in the company's list and does not count
C8_Witness ==
    /\ IsIntentCall(score_call)
    /\ score_call.lead # NoLead
    /\ HasCompany(score_call.lead)
    /\ score_call.result.committee_factor = 12
    /\ \E i \in DOMAIN score_call.company_signals :
          score_call.company_signals[i].user_id = score_call.lead.user_id

\* C9: the score lies in [0, 100]; appending a signal never lowers it; a
\* higher committee factor never lowers it for the same signals.
C9_ScoreBoundedMonotone ==
    IsIntentCall(score_call) =>
        /\ score_call.result.score >= 0
        /\ score_call.result.score <= 1000
        /\ IsIntentCall(prev_call) =>
              /\ (/\ Len(score_call.signals) = Len(prev_call.signals) + 1
                  /\ SubSeq(score_call.signals, 1, Len(prev_call.signals)) = prev_call.signals
                  /\ score_call.company_signals = prev_call.company_signals)
                    => score_call.result.score >= prev_call.result.score
              /\ (/\ score_call.signals = prev_call.signals
                  /\ score_call.result.committee_factor > prev_call.result.committee_factor)
                    => score_call.result.score >= prev_call.result.score
              /\ (/\ score_call.signals = prev_call.signals
                  /\ score_call.result.committee_factor < prev_call.result.committee_factor)
                    => score_call.result.score <= prev_call.result.score

\* a signal was appended and the score went up
C9_Witness ==
    /\ IsIntentCall(score_call)
    /\ IsIntentCall(prev_call)
    /\ Len(score_call.signals) = Len(prev_call.signals) + 1
    /\ score_call.result.score > prev_call.result.score

\* C10: the label agrees with the returned score: HIGH iff score >=
\* high_threshold, MEDIUM iff medium_threshold <= score < high_threshold,
\* LOW iff score < medium_threshold.
C10_LabelAgreesWithScore ==
    IsIntentCall(score_call) =>
        LET r == score_call.result
        IN  /\ r.label = "HIGH" <=> r.score >= scorer_config.high_threshold
            /\ r.label = "MEDIUM" <=> /\ r.score >= scorer_config.medium_threshold
                                      /\ r.score < scorer_config.high_threshold
            /\ r.label = "LOW" <=> r.score < scorer_config.medium_threshold

\* ------------------------------------------------------------------------
\* Inputs of the pipeline
\* ------------------------------------------------------------------------
ProfileData(linkedin_url, title, company_name, company_domain, industry, company_size) ==
    [linkedin_url |-> linkedin_url, name |-> <<"A", "l">>, title |-> title,
     company_name |-> company_name, company_domain |-> company_domain,
     industry |-> industry, company_size |-> company_size]

TxtUrl == <<"l", "i", "/", "i", "n", "/", "a", "l">>

LeadInput(user_id, profile_data, signals) ==
    [user_id |-> user_id, profile_data |-> profile_data, signals |-> signals]

LeadInputs ==
    { \* ideal customer whose only signal scores exactly 30.0
      LeadInput("u1", ProfileData(TxtUrl, <<"C", "E", "O">>, TxtAc, TxtSite, TxtSaas, <<"1", "0", "0">>),
                <<SignalEvent("role_change", "u1", Now, NoneStr, 861)>>),
      \* ideal customer asking for a demo
      LeadInput("u1", ProfileData(TxtUrl, <<"C", "E", "O">>, TxtAc, TxtSite, TxtSaas, <<"1", "0", "0">>),
                <<SignalEvent("demo_request", "u1", Now + 1, NoneStr, 1000)>>),
      \* outside every target industry, asking for a demo
      LeadInput("u2", ProfileData(TxtUrl, <<"D", "e", "v">>, TxtcXi, Absent, <<"m", "i", "n", "i", "n", "g">>, <<"1", "0", "0", "0">>),
                <<SignalEvent("demo_request", "u2", Now, NoneStr, 1000)>>),
      \* in the sender's target industry, no signal yet
      LeadInput("u3", ProfileData(TxtUrl, <<"V", "P">>, TxtAc, TxtSite, <<"S", "e", "c", "u", "r", "i", "t", "y">>, Absent),
                <<>>),
      \* company size that is not a number
      LeadInput("u2", ProfileData(TxtUrl, <<"C", "E", "O">>, TxtAc, TxtSite, TxtSaas, <<"n", "/", "a">>),
                <<SignalEvent("demo_request", "u2", Now, NoneStr, 1000)>>),
      \* no profile URL: the lead has a company but no contact
      LeadInput("u3", ProfileData(Absent, <<"C", "E", "O">>, TxtAc, TxtSite, TxtSaas, <<"1", "0", "0">>),
                <<SignalEvent("content_engagement", "u3", Now - 3, TxtShare, 1000)>>) }

SystemConfigs == { DefaultSystemConfig, SystemConfig(500, 700, 900) }

Drivers == {"ingest_csv", "interactive_demo"}

\* ------------------------------------------------------------------------
\* Batch runs: ingest_csv.main and interactive_demo.run_scenario
\* ------------------------------------------------------------------------
NextLead == batch[Len(outcomes) + 1]

\* run_scenario reads profile["linkedin_url"] before it calls the engine
DriverRaisesBefore(lead_input) ==
    driver = "interactive_demo" /\ lead_input.profile_data.linkedin_url = Absent

\* main prints profile.name and company.name of the result's lead
DriverRaisesAfter(result) ==
    driver = "ingest_csv" /\ (~HasContact(result.lead) \/ ~HasCompany(result.lead))

Processed(lead_input, outcome) ==
    process_lead(system_config, model_loaded, sender_embedding, np_random, Now,
                 lead_input.user_id, lead_input.profile_data, lead_input.signals, outcome)

AbortStatus == IF driver = "ingest_csv" THEN "aborted" ELSE "crashed"

\* one iteration of the loop: process_lead returns and the result is used
LeadProcessed ==
    /\ run_status = "running"
    /\ Len(outcomes) < Len(batch)
    /\ ~DriverRaisesBefore(NextLead)
    /\ ~ProcessLeadRaises(NextLead.profile_data)
    /\ \E outcome \in (IF model_loaded THEN NeuralOutcomes ELSE {NoNeural}) :
          LET p == Processed(NextLead, outcome)
          IN  /\ ~DriverRaisesAfter(p.result)
              /\ outcomes' = Append(outcomes, [neural |-> outcome, result |-> p.result,
                                            starter_calls |-> p.starter_calls])
              /\ sender_embedding' = p.embedding
              /\ np_random' = p.rng
    /\ UNCHANGED <<intakeVars, filterVars, scorerVars, icpVars, signalVars, system_config, model_loaded, driver, batch,
                   run_status>>

\* one iteration of the loop in which the driver or process_lead raises
\* before a result exists: the loop is left
LeadRaises ==
    /\ run_status = "running"
    /\ Len(outcomes) < Len(batch)
    /\ DriverRaisesBefore(NextLead) \/ ProcessLeadRaises(NextLead.profile_data)
    /\ run_status' = AbortStatus
    /\ UNCHANGED <<intakeVars, filterVars, scorerVars, icpVars, signalVars, system_config, model_loaded, sender_embedding,
                   np_random, driver, batch, outcomes>>

\* one iteration in which process_lead returns and printing the result raises
ReportRaises ==
    /\ run_status = "running"
    /\ Len(outcomes) < Len(batch)
    /\ ~DriverRaisesBefore(NextLead)
    /\ ~ProcessLeadRaises(NextLead.profile_data)
    /\ \E outcome \in (IF model_loaded THEN NeuralOutcomes ELSE {NoNeural}) :
          LET p == Processed(NextLead, outcome)
          IN  /\ DriverRaisesAfter(p.result)
              /\ sender_embedding' = p.embedding
              /\ np_random' = p.rng
    /\ run_status' = AbortStatus
    /\ UNCHANGED <<intakeVars, filterVars, scorerVars, icpVars, signalVars, system_config, model_loaded, driver, batch,
                   outcomes>>

\* the loop ends after the last lead
BatchDone ==
    /\ run_status = "running"
    /\ Len(outcomes) = Len(batch)
    /\ run_status' = "done"
    /\ UNCHANGED <<intakeVars, filterVars, scorerVars, icpVars, signalVars, system_config, model_loaded, sender_embedding,
                   np_random, driver, batch, outcomes>>

EngineInit ==
    /\ IntakeIdle
    /\ FilterIdle
    /\ ScorerIdle
    /\ IcpIdle
    /\ SignalIdle
    /\ system_config \in SystemConfigs
    /\ model_loaded \in BOOLEAN
    /\ sender_embedding = NoEmbedding
    /\ np_random \in 0..(RngStates - 1)
    /\ driver \in Drivers
    /\ batch \in SeqsUpTo(LeadInputs, MaxBatch)
    /\ outcomes = <<>>
    /\ run_status = "running"

EngineNext == LeadProcessed \/ LeadRaises \/ ReportRaises \/ BatchDone

EngineSpec == EngineInit /\ [][EngineNext]_vars

Scores(r) ==
    [icp |-> r.icp.score, semantic |-> r.semantic.score,
     intent |-> r.intent.score, label |-> r.intent.label,
     should_engage |-> r.decision.should_engage]

\* C5: the scores and the decision for a lead depend only on the lead's own
\* data, the configuration and the sender context: the same lead gets the
\* same scores and decision whichever leads were processed before it.
C5_ResultIndependentOfHistory ==
    \A i, j \in DOMAIN outcomes :
        batch[i] = batch[j] => Scores(outcomes[i].result) = Scores(outcomes[j].result)

\* C6: an error while processing one lead does not abort the batch: when the
\* run is over, it ended normally and every lead of the batch was processed.
C6_BatchSurvivesLeadError ==
    run_status # "running" =>
        /\ run_status = "done"
        /\ Len(outcomes) = Len(batch)

DecayConfigs ==
    { ScoringConfig(DefaultHalfLife, DefaultHighThreshold, DefaultMediumThreshold),
      ScoringConfig(7, DefaultHighThreshold, DefaultMediumThreshold) }

\* ages in days: recent ones and those around 1074 half-lives
Ages ==
    {-1, 0, 1, 2, 3, 4, 6, 7, 14, 21, 3189, 3192}
        \cup (3221 .. 3226) \cup (7517 .. 7526)

\* _calculate_decay called for a signal of the given age
CalculateDecay ==
    /\ \E age \in Ages :
          score_call' = [op |-> "_calculate_decay", called |-> TRUE, age |-> age,
                         result |-> decay(scorer_config, Now, Now - age)]
    /\ prev_call' = score_call
    /\ UNCHANGED <<intakeVars, filterVars, scorer_config, engineVars, icpVars, signalVars>>

DecayInit ==
    /\ IntakeIdle
    /\ FilterIdle
    /\ EngineIdle
    /\ IcpIdle
    /\ SignalIdle
    /\ scorer_config \in DecayConfigs
    /\ score_call = NoCall
    /\ prev_call = NoCall

DecayNext == CalculateDecay

DecaySpec == DecayInit /\ [][DecayNext]_vars

IsDecayCall(c) == c.called /\ c.op = "_calculate_decay"

\* C12 as stated: the decay is 1.0 at age 0, 0.5 when the age is the
\* half-life, and strictly decreasing in the age for all non-negative ages.
C12_DecayStrictlyDecreasing ==
    IsDecayCall(score_call) =>
        /\ score_call.age = 0 => score_call.result = DoubleOne
        /\ score_call.age = scorer_config.decay_half_life => score_call.result = DoubleHalf
        /\ (IsDecayCall(prev_call) /\ 0 <= prev_call.age /\ prev_call.age < score_call.age)
              => DoubleLess(score_call.result, prev_call.result)

\* C12 amended: the decay is 1.0 at age 0, 0.5 when the age is the half-life,
\* never increasing in the age, and strictly decreasing as long as the age
\* is at most 1022 half-lives (the result is a normal double).
C12_DecayDecreasingWhileNormal ==
    IsDecayCall(score_call) =>
        /\ score_call.age = 0 => score_call.result = DoubleOne
        /\ score_call.age = scorer_config.decay_half_life => score_call.result = DoubleHalf
        /\ (IsDecayCall(prev_call) /\ 0 <= prev_call.age /\ prev_call.age < score_call.age)
              => /\ ~DoubleLess(prev_call.result, score_call.result)
                 /\ score_call.age <= 1022 * scorer_config.decay_half_life
                       => DoubleLess(score_call.result, prev_call.result)

\* two ages a day apart, past 1075 half-lives, with the same decay 0.0
C12_Witness ==
    /\ IsDecayCall(score_call)
    /\ IsDecayCall(prev_call)
    /\ score_call.age = prev_call.age + 1
    /\ prev_call.result = DoubleZero
    /\ score_call.result = DoubleZero

\* ------------------------------------------------------------------------
\* ICPMatcher operations
\* ------------------------------------------------------------------------
IcpConfigs ==
    { DefaultICPConfig,
      \* weights summing to 1.01, a technology and a funding floor required
      ICPConfig(<<50, 500>>, <<<<"s", "a", "a", "s">>>>, <<<<"p", "y", "t", "h", "o", "n">>>>, <<"s", "e", "r", "i", "e", "s", "_", "a">>,
                [size |-> 210, industry |-> 250, tech_stack |-> 150, funding |-> 150,
                 authority |-> 250]),
      \* only one weight given, a range starting at 0
      ICPConfig(<<0, 500>>, <<<<"s", "a", "a", "s">>>>, <<>>, <<"S", "e", "r", "i", "e", "s", " ", "B">>, [size |-> 1000]),
      \* weights summing to 1.2
      ICPConfig(<<50, 500>>, <<<<"s", "a", "a", "s">>>>, <<>>, NoneStr,
                [size |-> 400, industry |-> 250, tech_stack |-> 150, funding |-> 150,
                 authority |-> 250]) }

IcpCompanies ==
    { NoCompany,
      EnrichedCompany(TxtAc, TxtSite, TxtSaas, 150, <<<<"P", "y", "t", "h", "o", "n">>>>, <<"i", "p", "o">>),
      EnrichedCompany(TxtAc, NoneStr, <<"o", "t", "h", "e", "r">>, 0, <<>>, NoneStr) }

IcpContacts ==
    { NoContact,
      EnrichedContact(<<"A", "l">>, <<"C", "E", "O">>, "C_LEVEL"),
      EnrichedContact(<<"A", "l">>, <<"C", "E", "O">>, "UNKNOWN"),
      EnrichedContact(<<"A", "l">>, <<"S", "a", "l", "e", "s", " ", "D", "i", "r", "e", "c", "t", "o", "r">>, NoLevel),
      EnrichedContact(<<"A", "l">>, <<"D", "e", "v">>, NoLevel),
      EnrichedContact(<<"A", "l">>, NoneStr, "MANAGER") }

Sizes == {0, 1, 25, 49, 50, 150, 500, 501, 1000, 5000}

Stages ==
    { NoneStr, <<>>, <<"s", "e", "e", "d">>, <<"S", "e", "r", "i", "e", "s", " ", "A">>, <<"s", "e", "r", "i", "e", "s", "-", "b">>, <<"i", "p", "o">>, <<"a", "n", "g", "e", "l">> }

\* Optional[float] = None, for EnrichedLead.icp_score
NoIcpScore == -1

\* the EnrichedLead dataclass as enrich_lead leaves it: the score fields at
\* their defaults (None and an empty dict)
LeadObject(lead) ==
    [user_id |-> lead.user_id, contact |-> lead.contact, company |-> lead.company,
     icp_score |-> NoIcpScore, icp_breakdown |-> [d \in {} |-> 0]]

CalculateIcpScore ==
    /\ \E company \in IcpCompanies, contact \in IcpContacts :
          LET lead == EnrichedLead("u1", contact, company)
          IN  icp_call' = [op |-> "calculate_icp_score", called |-> TRUE, lead |-> lead,
                           result |-> calculate_icp_score(icp_config, lead),
                           \* the method reads the lead and assigns nothing to it
                           lead_before |-> LeadObject(lead),
                           lead_after |-> LeadObject(lead)]
    /\ icp_prev' = icp_call
    /\ UNCHANGED <<intakeVars, filterVars, scorerVars, engineVars, signalVars, icp_config>>

ScoreCompanySize ==
    /\ \E size \in Sizes :
          icp_call' = [op |-> "score_company_size", called |-> TRUE, size |-> size,
                       result |-> score_company_size(icp_config, size)]
    /\ icp_prev' = icp_call
    /\ UNCHANGED <<intakeVars, filterVars, scorerVars, engineVars, signalVars, icp_config>>

ScoreFunding ==
    /\ \E stage \in Stages :
          icp_call' = [op |-> "score_funding", called |-> TRUE, funding_stage |-> stage,
                       result |-> score_funding(icp_config, stage)]
    /\ icp_prev' = icp_call
    /\ UNCHANGED <<intakeVars, filterVars, scorerVars, engineVars, signalVars, icp_config>>

IcpInit ==
    /\ IntakeIdle
    /\ FilterIdle
    /\ ScorerIdle
    /\ EngineIdle
    /\ SignalIdle
    /\ icp_config \in IcpConfigs
    /\ icp_call = NoCall
    /\ icp_prev = NoCall

IcpNext == CalculateIcpScore \/ ScoreCompanySize \/ ScoreFunding

IcpSpec == IcpInit /\ [][IcpNext]_vars

IsIcpCall(c, op) == c.called /\ c.op = op

\* C13: with a configuration that passes validate(), calculate_icp_score
\* returns an icp_score in [0, 100] and every breakdown dimension in [0, 1],
\* whether company and contact are present or absent.
C13_IcpScoreInRange ==
    (IsIcpCall(icp_call, "calculate_icp_score") /\ validate(icp_config)) =>
        LET r == icp_call.result
        IN  /\ 0 <= r.icp_score /\ r.icp_score <= 1000
            /\ \A d \in DOMAIN r.breakdown :
                  0 <= r.breakdown[d] /\ r.breakdown[d] <= 100

\* the ratio to the nearest bound, for a size outside the range
SizeRatio(size, min_size, max_size) ==
    IF size < min_size THEN (size * 10000) \div min_size
                       ELSE (max_size * 10000) \div size

\* of two sizes on the same side of the range, the one further away scores less
FurtherScoresLess(near, far, min_size, max_size) ==
    /\ (far.size < near.size /\ near.size < min_size) => far.result < near.result
    /\ (max_size < near.size /\ near.size < far.size) => far.result < near.result

\* C14 as stated: for every employee count and size range with min <= max,
\* score_company_size is exactly 1.0 inside the range and strictly between 0
\* and 1 outside it (size/min below, max/size above), decreasing as the size
\* moves away from the nearest bound.
C14_SizeScoreByRange ==
    IsIcpCall(icp_call, "score_company_size") =>
        LET size == icp_call.size
            min_size == icp_config.size_range[1]
            max_size == icp_config.size_range[2]
        IN  min_size <= max_size =>
              /\ (min_size <= size /\ size <= max_size) => icp_call.result = 10000
              /\ (size < min_size \/ size > max_size) =>
                    /\ 0 < icp_call.result /\ icp_call.result < 10000
                    /\ icp_call.result = SizeRatio(size, min_size, max_size)
              /\ IsIcpCall(icp_prev, "score_company_size") =>
                    /\ FurtherScoresLess(icp_prev, icp_call, min_size, max_size)
                    /\ FurtherScoresLess(icp_call, icp_prev, min_size, max_size)

\* C14 amended: the same for every employee count of at least 1 (the upper
\* bound of the range being at least 1); an employee count of 0 or less scores
\* exactly 0.0 whatever the range.
C14_PositiveSizeScoreByRange ==
    IsIcpCall(icp_call, "score_company_size") =>
        LET size == icp_call.size
            min_size == icp_config.size_range[1]
            max_size == icp_config.size_range[2]
        IN  /\ size <= 0 => icp_call.result = 0
            /\ (size > 0 /\ min_size <= max_size /\ max_size > 0) =>
                 /\ (min_size <= size /\ size <= max_size) => icp_call.result = 10000
                 /\ (size < min_size \/ size > max_size) =>
                       /\ 0 < icp_call.result /\ icp_call.result < 10000
                       /\ icp_call.result = SizeRatio(size, min_size, max_size)
                 /\ (IsIcpCall(icp_prev, "score_company_size") /\ icp_prev.size > 0) =>
                       /\ FurtherScoresLess(icp_prev, icp_call, min_size, max_size)
                       /\ FurtherScoresLess(icp_call, icp_prev, min_size, max_size)

\* a company of unknown size (0 employees) scored after one below the range
C14_Witness ==
    /\ IsIcpCall(icp_call, "score_company_size")
    /\ IsIcpCall(icp_prev, "score_company_size")
    /\ icp_call.size = 0
    /\ icp_call.result = 0
    /\ icp_prev.size = 25
    /\ icp_prev.result = 5000

\* the score of the lead's stage before the floor is applied
StageScore(funding_stage) ==
    IF ~Truthy(funding_stage) THEN 3000 ELSE FundingScoreOr(StageKey(funding_stage), 4000)

\* C15: score_funding gives a known stage its table score, an unknown stage
\* 0.4 and a missing stage 0.3; with a minimum stage configured, a stage
\* score below the minimum's gives 0.0, so the result is 0.0 or at least the
\* minimum stage's score.
C15_FundingFloor ==
    IsIcpCall(icp_call, "score_funding") =>
        LET stage_score == StageScore(icp_call.funding_stage)
            min_stage == icp_config.min_funding_stage
            min_score == FundingScoreOr(StageKey(min_stage), 0)
        IN  IF Truthy(min_stage)
            THEN /\ icp_call.result = IF stage_score < min_score THEN 0 ELSE stage_score
                 /\ icp_call.result = 0 \/ icp_call.result >= min_score
            ELSE icp_call.result = stage_score

\* the seniority the authority is derived from: the explicit one, or the one
\* the title gives when the contact has none
SeniorityOf(contact) ==
    IF contact.seniority_level # NoLevel THEN contact.seniority_level
    ELSE IF Truthy(contact.title) THEN detect_seniority(contact.title)
    ELSE "UNKNOWN"

\* C16: calculate_icp_score always returns the authority_level
\* "decision_maker" or "influencer", whether company and contact are present
\* or absent, and "decision_maker" exactly when the contact's seniority
\* (explicit, or inferred from the title) is C_LEVEL, VP or DIRECTOR.
C16_AuthorityLevel ==
    IsIcpCall(icp_call, "calculate_icp_score") =>
        /\ icp_call.result.authority_level \in {"decision_maker", "influencer"}
        /\ icp_call.result.authority_level = "decision_maker" <=>
              /\ HasContact(icp_call.lead)
              /\ SeniorityOf(icp_call.lead.contact) \in {"C_LEVEL", "VP", "DIRECTOR"}


\* C21: after calculate_icp_score has scored a lead, the lead's icp_score and
\* icp_breakdown hold the computed score and breakdown, and the lead's user
\* id, company and contact are what they were before the call.
C21_LeadCarriesIcpScore ==
    IsIcpCall(icp_call, "calculate_icp_score") =>
        LET r == icp_call.result
            after == icp_call.lead_after
            before == icp_call.lead_before
        IN  /\ after.icp_score = r.icp_score
            /\ DOMAIN after.icp_breakdown = DOMAIN r.breakdown
            /\ \A d \in DOMAIN r.breakdown : after.icp_breakdown[d] = r.breakdown[d]
            /\ after.user_id = before.user_id
            /\ after.company = before.company
            /\ after.contact = before.contact
\* ------------------------------------------------------------------------
\* SignalEvent objects: construction, immutability, attention weights
\* ------------------------------------------------------------------------
\* the strength test of __post_init__ leaving out the value 0.0
post_init_positive_strength(strength, user_id) ==
    IF ~(0 < strength /\ strength <= 1000) THEN "ValueError"
    ELSE IF user_id = "" THEN "ValueError"
    ELSE "none"

\* SignalEvent.__post_init__: the exception it raises
post_init(strength, user_id) ==
    IF ~(0 <= strength /\ strength <= 1000) THEN "ValueError"
    ELSE IF user_id = "" THEN "ValueError"
    ELSE "none"

DefaultStrength == 500

\* SignalEvent.from_dict: the arguments it hands to the constructor
from_dict(data) ==
    [type |-> data.type, user_id |-> data.user_id, timestamp |-> data.timestamp,
     strength |-> IF "strength" \in DOMAIN data THEN data.strength ELSE DefaultStrength]

\* assignment to a field of a frozen dataclass: the exception, and the object
\* afterwards
setattr_frozen(event, name, value) ==
    [raised |-> "FrozenInstanceError", event |-> event]

EventTypes == {"profile_visit", "demo_request"}
EventUserIds == {"", "u1"}
EventTimestamps == {Now, Now - 3}
EventStrengths == {-1, 0, 1000, 1001}

\* SignalEvent(...) is called
Construct ==
    /\ Len(signal_events) < MaxSignals
    /\ \E type \in EventTypes, user_id \in EventUserIds, timestamp \in EventTimestamps,
          strength \in EventStrengths :
          LET raised == post_init(strength, user_id)
          IN  /\ signal_call' = [op |-> "SignalEvent", called |-> TRUE,
                                 strength |-> strength, user_id |-> user_id,
                                 raised |-> raised]
              /\ signal_events' =
                    IF raised = "none"
                    THEN Append(signal_events,
                                SignalEvent(type, user_id, timestamp, NoneStr, strength))
                    ELSE signal_events
    /\ UNCHANGED <<intakeVars, filterVars, scorerVars, engineVars, icpVars>>

\* SignalEvent.from_dict is called on a dictionary, with or without a strength
FromDict ==
    /\ Len(signal_events) < MaxSignals
    /\ \E type \in EventTypes, user_id \in EventUserIds, timestamp \in EventTimestamps :
       \E data \in {[type |-> type, user_id |-> user_id, timestamp |-> timestamp]}
                      \cup {[type |-> type, user_id |-> user_id, timestamp |-> timestamp,
                             strength |-> s] : s \in EventStrengths} :
          LET args == from_dict(data)
              raised == post_init(args.strength, args.user_id)
          IN  /\ signal_call' = [op |-> "from_dict", called |-> TRUE,
                                 strength |-> args.strength, user_id |-> args.user_id,
                                 raised |-> raised]
              /\ signal_events' =
                    IF raised = "none"
                    THEN Append(signal_events,
                                SignalEvent(args.type, args.user_id, args.timestamp,
                                            NoneStr, args.strength))
                    ELSE signal_events
    /\ UNCHANGED <<intakeVars, filterVars, scorerVars, engineVars, icpVars>>

\* a field of an existing event is assigned
SetAttribute ==
    /\ \E i \in DOMAIN signal_events, name \in {"strength", "user_id"} :
          LET r == setattr_frozen(signal_events[i], name, 1001)
          IN  /\ signal_call' = [op |-> "setattr", called |-> TRUE, index |-> i,
                                 name |-> name, raised |-> r.raised]
              /\ signal_events' = [signal_events EXCEPT ![i] = r.event]
    /\ UNCHANGED <<intakeVars, filterVars, scorerVars, engineVars, icpVars>>

\* AttentionSignalWeighter.forward on the existing events, or on none
AttentionForward ==
    /\ \E signals \in {<<>>, signal_events} :
          LET r == attention_forward(sender_embedding, np_random, signals)
          IN  /\ signal_call' = [op |-> "forward", called |-> TRUE, signals |-> signals,
                                 weights |-> r.weights,
                                 attended |-> r.embedding # sender_embedding
                                                \/ r.rng # np_random]
              /\ sender_embedding' = r.embedding
              /\ np_random' = r.rng
    /\ UNCHANGED <<intakeVars, filterVars, scorerVars, icpVars, signal_events, system_config,
                   model_loaded, driver, batch, outcomes, run_status>>

SignalInit ==
    /\ IntakeIdle
    /\ FilterIdle
    /\ ScorerIdle
    /\ EngineIdle
    /\ IcpIdle
    /\ signal_events = <<>>
    /\ signal_call = NoCall

SignalNext == Construct \/ FromDict \/ SetAttribute \/ AttentionForward

SignalSpec == SignalInit /\ [][SignalNext]_vars

IsConstruction(c) == c.called /\ c.op \in {"SignalEvent", "from_dict"}

ValidEvent(e) == 0 <= e.strength /\ e.strength <= 1000 /\ e.user_id # ""

C19_OneWeightPerSignal ==
    (signal_call.called /\ signal_call.op = "forward") =>
        /\ Cardinality(DOMAIN signal_call.weights) = Len(signal_call.signals)
        /\ signal_call.signals = <<>> =>
              (signal_call.weights = <<>> /\ ~signal_call.attended)

C20_ShareScoresThreeTimesLike ==
    (/\ IsIntentCall(score_call)
     /\ Len(score_call.signals) = 1
     /\ score_call.signals[1].type = "content_engagement"
     /\ score_call.signals[1].action = TxtLike) =>
        LET like == score_call.signals[1]
            share == [like EXCEPT !.action = TxtShare]
            share_score == calculate_intent_score(scorer_config, Now, <<share>>,
                                                  score_call.lead,
                                                  score_call.company_signals).score
            like_score == score_call.result.score
        IN  29 * like_score < 10 * share_score /\ 10 * share_score < 31 * like_score


\* ------------------------------------------------------------------------
\* LeadEnricher operations and process_lead called on their own
\* ------------------------------------------------------------------------
\* "if not linkedin_url: raise ValueError" in enrich_contact and enrich_company
enrich_contact_raises(linkedin_url) == ~Truthy(linkedin_url)

enrich_company_raises(linkedin_url) == ~Truthy(linkedin_url)

\* enrich_lead calls enrich_contact and enrich_company only with a truthy URL
enrich_lead_raises(linkedin_profile_url, linkedin_company_url) ==
    \/ Truthy(linkedin_profile_url) /\ enrich_contact_raises(linkedin_profile_url)
    \/ Truthy(linkedin_company_url) /\ enrich_company_raises(linkedin_company_url)

\* the company URL process_lead hands to enrich_lead
CompanyUrl(profile_data) ==
    IF Truthy(Get(profile_data, "linkedin_url")) THEN Get(profile_data, "linkedin_url")
    ELSE IF Truthy(Get(profile_data, "company_name"))
         THEN LinkedInURL_company(profile_data.company_name)
         ELSE Get(profile_data, "linkedin_url")

\* process_lead raises when int(company_size) fails or enrich_lead raises
process_lead_raises(profile_data) ==
    \/ ProcessLeadRaises(profile_data)
    \/ enrich_lead_raises(Get(profile_data, "linkedin_url"), CompanyUrl(profile_data))

\* None, the empty string and a URL
EnrichUrls == { NoneStr, <<>>, TxtUrl }

EnrichTitles == { <<>>, <<"C", "E", "O">>, <<"D", "e", "v">>, <<"V", "P", " ", "S", "a", "l", "e", "s">>, <<"T", "e", "a", "m", " ", "L", "e", "a", "d">> }

\* leads of the pipeline whose profile URL is missing or empty
LeadsWithoutUrl ==
    { LeadInput("u3", ProfileData(url, <<"C", "E", "O">>, company_name, TxtSite, TxtSaas, <<"1", "0", "0">>),
                <<SignalEvent("demo_request", "u3", Now, NoneStr, 1000)>>) :
        url \in {Absent, NoneStr, <<>>}, company_name \in {Absent, TxtAc} }

\* an ideal customer that is a configured competitor on an excluded domain
LeadsOfCompetitors ==
    { LeadInput("u1", ProfileData(TxtUrl, <<"C", "E", "O">>, TxtCx, TxtSubEx, TxtSaas, <<"1", "0", "0">>),
                <<SignalEvent("demo_request", "u1", Now, NoneStr, 1000)>>) }

Outcome(raises) == IF raises THEN "ValueError" ELSE "returned"

EnrichContact ==
    /\ \E url \in EnrichUrls, title \in EnrichTitles :
          enrich_call' =
              IF enrich_contact_raises(url)
              THEN [op |-> "enrich_contact", called |-> TRUE, url |-> url,
                    outcome |-> Outcome(TRUE)]
              ELSE [op |-> "enrich_contact", called |-> TRUE, url |-> url,
                    outcome |-> Outcome(FALSE),
                    result |-> enrich_contact(<<"A", "l">>, title)]
    /\ UNCHANGED <<filterVars, scorerVars, engineVars, icpVars, signalVars,
                   linkedin_signals, external_signals, monitor_call>>

EnrichCompany ==
    /\ \E url \in EnrichUrls, size \in {0, 150} :
          enrich_call' =
              IF enrich_company_raises(url)
              THEN [op |-> "enrich_company", called |-> TRUE, url |-> url,
                    outcome |-> Outcome(TRUE)]
              ELSE [op |-> "enrich_company", called |-> TRUE, url |-> url,
                    outcome |-> Outcome(FALSE),
                    result |-> enrich_company(TxtAc, TxtSite, TxtSaas, size)]
    /\ UNCHANGED <<filterVars, scorerVars, engineVars, icpVars, signalVars,
                   linkedin_signals, external_signals, monitor_call>>

EnrichLead ==
    /\ \E profile_url \in EnrichUrls, company_url \in EnrichUrls, title \in EnrichTitles :
          enrich_call' =
              IF enrich_lead_raises(profile_url, company_url)
              THEN [op |-> "enrich_lead", called |-> TRUE, url |-> profile_url,
                    outcome |-> Outcome(TRUE)]
              ELSE [op |-> "enrich_lead", called |-> TRUE, url |-> profile_url,
                    outcome |-> Outcome(FALSE),
                    result |-> enrich_lead("u1", profile_url, company_url,
                                   [name |-> <<"A", "l">>, title |-> title],
                                   [name |-> TxtAc, website |-> TxtSite,
                                    industry |-> TxtSaas, size |-> 150])]
    /\ UNCHANGED <<filterVars, scorerVars, engineVars, icpVars, signalVars,
                   linkedin_signals, external_signals, monitor_call>>

\* process_lead on the engine, outside any batch
ProcessLead ==
    /\ \E lead_input \in LeadInputs \cup LeadsWithoutUrl \cup LeadsOfCompetitors :
          IF process_lead_raises(lead_input.profile_data)
          THEN /\ enrich_call' = [op |-> "process_lead", called |-> TRUE,
                                  url |-> Get(lead_input.profile_data, "linkedin_url"),
                                  outcome |-> Outcome(TRUE)]
               /\ UNCHANGED <<sender_embedding, np_random>>
          ELSE LET p == Processed(lead_input, NoNeural)
               IN  /\ enrich_call' = [op |-> "process_lead", called |-> TRUE,
                                      url |-> Get(lead_input.profile_data, "linkedin_url"),
                                      outcome |-> Outcome(FALSE),
                                      signals |-> lead_input.signals,
                                      result |-> p.result]
                   /\ sender_embedding' = p.embedding
                   /\ np_random' = p.rng
    /\ UNCHANGED <<filterVars, scorerVars, icpVars, signalVars, system_config,
                   model_loaded, driver, batch, outcomes, run_status,
                   linkedin_signals, external_signals, monitor_call>>

\* the exclusion rules of the engine's filter (engine.intent_filter.config)
\* are set by the engine's owner before any lead is processed
ConfigureExclusions ==
    /\ enrich_call = NoCall
    /\ filter_config' \in FilterConfigs
    /\ UNCHANGED <<filter_call, filter_prev, scorerVars, engineVars, icpVars, signalVars,
                   intakeVars>>

\* the SystemConfig values an engine is constructed with: the defaults, and
\* one with its own label thresholds (90 and 50) and a 72-hour half-life
EngineSystemConfigs ==
    { DefaultSystemConfig,
      [DefaultSystemConfig EXCEPT !.high_intent_threshold = 900,
                                  !.medium_intent_threshold = 500,
                                  !.decay_half_life = 3] }

EnrichInit ==
    /\ FilterIdle
    /\ ScorerIdle
    /\ system_config \in EngineSystemConfigs
    /\ model_loaded = FALSE
    /\ sender_embedding = NoEmbedding
    /\ np_random = 0
    /\ driver = "ingest_csv"
    /\ batch = <<>>
    /\ outcomes = <<>>
    /\ run_status = "done"
    /\ IcpIdle
    /\ SignalIdle
    /\ IntakeIdle

EnrichNext ==
    EnrichContact \/ EnrichCompany \/ EnrichLead \/ ProcessLead \/ ConfigureExclusions

EnrichSpec == EnrichInit /\ [][EnrichNext]_vars

\* C22: an enrichment request whose required profile URL is empty or missing
\* fails with a ValueError that reaches the caller of the per-lead operation,
\* whether that is enrich_contact, enrich_company, enrich_lead or process_lead:
\* none of them returns an enriched lead or a result for it.
C22_MissingUrlRaises ==
    (enrich_call.called /\ ~Truthy(enrich_call.url)) => enrich_call.outcome = "ValueError"

IsProcessed == enrich_call.called /\ enrich_call.op = "process_lead"
                  /\ enrich_call.outcome = "returned"

\* C27: process_lead never returns should_engage = true, and never drafts a
\* message, for a lead that the exclusion rules of the engine's own
\* HighIntentFilter match: a company name containing a configured competitor
\* or a website containing a configured excluded domain.
C27_ExcludedLeadNeverEngaged ==
    IsProcessed =>
        LET r == enrich_call.result
        IN  ExclusionRuleMatches(filter_config, r.lead) =>
               /\ ~r.decision.should_engage
               /\ r.draft = NoDraft

\* C29: the intent label and the recency decay of process_lead follow the
\* SystemConfig the engine was constructed with: the label is HIGH iff the
\* intent score reaches high_intent_threshold, MEDIUM iff it reaches
\* medium_intent_threshold but not the high one, and the score is the one
\* computed with decay_half_life_hours as the half-life.
C29_ScoringFollowsSystemConfig ==
    IsProcessed =>
        LET r == enrich_call.result
            score == r.intent.score
            configured == ScoringConfig(system_config.decay_half_life,
                                        system_config.high_intent_threshold,
                                        system_config.medium_intent_threshold)
        IN  /\ r.intent.label = "HIGH" <=> score >= system_config.high_intent_threshold
            /\ r.intent.label = "MEDIUM" <=>
                  /\ score >= system_config.medium_intent_threshold
                  /\ score < system_config.high_intent_threshold
            /\ score = calculate_intent_score(configured, Now, enrich_call.signals,
                                              r.lead, <<>>).score

\* the sender vectors that the attention step of the processed leads used
SenderVectorsUsed ==
    UNION { { outcomes[i].result.intent.attention_weights[s].sender_vec :
                s \in Range(batch[i].signals) } : i \in DOMAIN outcomes }

\* C23: the sender's embedding is materialized at most once: once it is set,
\* no process_lead call (semantic fit, attention weighting) changes it, and
\* every get_embedding call of every processed lead returned that one vector.
\* The other fields of the profile are never assigned by the pipeline.
C23_EmbeddingMaterializedOnce ==
    /\ [](SenderVectorsUsed \subseteq {sender_embedding})
    /\ [][sender_embedding # NoEmbedding => sender_embedding' = sender_embedding]_vars

\* two leads with signals have been processed on the one sender profile, the
\* generator having moved on since the embedding was drawn
C23_Witness ==
    /\ Len(outcomes) = 2
    /\ \A i \in DOMAIN outcomes : batch[i].signals # <<>>
    /\ sender_embedding # NoEmbedding
    /\ np_random # RngNext(sender_embedding)
    /\ SenderVectorsUsed = {sender_embedding}

\* C26: in every result of process_lead a draft message is present exactly
\* when decision.should_engage is true: the message-drafting collaborator is
\* called once for an engaged lead, its return value being the draft, and
\* never for a skipped lead.
C26_DraftIffEngaged ==
    \A i \in DOMAIN outcomes :
        LET r == outcomes[i].result
        IN  /\ (r.draft # NoDraft) <=> r.decision.should_engage
            /\ outcomes[i].starter_calls = (IF r.decision.should_engage THEN 1 ELSE 0)
            /\ r.decision.should_engage => r.draft = generate_message(r.lead, batch[i].signals)

\* a batch in which one lead was engaged and got its draft and another was
\* skipped without one
C26_Witness ==
    \E i, j \in DOMAIN outcomes :
        /\ outcomes[i].result.decision.should_engage
        /\ outcomes[i].result.draft # NoDraft
        /\ outcomes[i].starter_calls = 1
        /\ ~outcomes[j].result.decision.should_engage
        /\ outcomes[j].result.draft = NoDraft
        /\ outcomes[j].starter_calls = 0

\* ------------------------------------------------------------------------
\* Signal intake: LinkedInSignalMonitor and ExternalSignalAggregator.
\* Payload values are strings; a key the payload does not have is NoKey, a
\* key whose value is None is NoneValue.  Timestamps are days, strengths per
\* mille.
\* ------------------------------------------------------------------------
NoKey == "<no key>"
NoneValue == "<None>"

\* the payload's "timestamp": no key, a naive ISO string, an ISO string with
\* a UTC offset ("...Z"), or a string that is no ISO timestamp
NoTimestamp == [kind |-> "none", day |-> 0]
NaiveTimestamp(day) == [kind |-> "naive", day |-> day]
AwareTimestamp(day) == [kind |-> "aware", day |-> day]
BadTimestamp == [kind |-> "invalid", day |-> 0]

\* _parse_timestamp: datetime.fromisoformat of the string, or datetime.now()
parse_timestamp(timestamp) ==
    IF timestamp.kind = "none" THEN [raised |-> "none", day |-> Now, aware |-> FALSE]
    ELSE IF timestamp.kind = "invalid" THEN [raised |-> "ValueError", day |-> 0, aware |-> FALSE]
    ELSE [raised |-> "none", day |-> timestamp.day, aware |-> timestamp.kind = "aware"]

\* LinkedInSignalMonitor._validate_required_fields: a field is missing when
\* the key is absent or its value is falsy
linkedin_validate_required_fields(payload, required) ==
    IF \E f \in required : payload[f] \in {NoKey, NoneValue, ""}
    THEN "ValueError" ELSE "none"

\* ExternalSignalAggregator._validate_required_fields: a field is missing
\* when the key is absent or its value is None
external_validate_required_fields(payload, required) ==
    IF \E f \in required : payload[f] \in {NoKey, NoneValue}
    THEN "ValueError" ELSE "none"

\* the SignalEvent a parse_* method builds
StoredSignal(type, user_id, parsed, strength) ==
    [type |-> type, user_id |-> user_id, timestamp |-> parsed.day,
     aware |-> parsed.aware, strength |-> strength]

Raised(error) == [outcome |-> error]
Returned(signal) == [outcome |-> "returned", signal |-> signal]

\* the steps shared by the parse_* methods after validation: parse the
\* timestamp, construct the SignalEvent (__post_init__ validates it)
BuildSignal(type, user_id, timestamp, strength) ==
    LET parsed == parse_timestamp(timestamp)
    IN  IF parsed.raised # "none" THEN Raised(parsed.raised)
        ELSE IF post_init(strength, user_id) # "none" THEN Raised(post_init(strength, user_id))
        ELSE Returned(StoredSignal(type, user_id, parsed, strength))

\* parse_engagement up to the constructed signal
parse_engagement(payload) ==
    IF linkedin_validate_required_fields(payload, {"event_type", "user_id", "post_id"}) # "none"
    THEN Raised("ValueError")
    ELSE LET strength == CASE payload.event_type = "like" -> 300
                           [] payload.event_type = "comment" -> 700
                           [] payload.event_type = "share" -> 900
                           [] OTHER -> 500
         IN  BuildSignal("content_engagement", payload.user_id, payload.timestamp, strength)

Min(a, b) == IF a <= b THEN a ELSE b

\* parse_profile_visit up to the constructed signal; the recency category
\* subtracts the timestamp from the naive datetime.now()
parse_profile_visit(payload) ==
    IF linkedin_validate_required_fields(payload, {"visitor_id", "visitor_url"}) # "none"
    THEN Raised("ValueError")
    ELSE LET visit_count == IF "visit_count" \in DOMAIN payload THEN payload.visit_count ELSE 1
             parsed == parse_timestamp(payload.timestamp)
             strength == Min(300 + visit_count * 150, 1000)
         IN  IF parsed.raised # "none" THEN Raised(parsed.raised)
             ELSE IF parsed.aware THEN Raised("TypeError")
             ELSE BuildSignal("profile_visit", payload.visitor_id, payload.timestamp, strength)

\* a list insertion that puts the new signal first
StoredFirst(store, signal) ==
    [store EXCEPT ![signal.user_id] = <<signal>> \o @]

\* self._signals[user_id].append(signal)
Stored(store, signal) ==
    [store EXCEPT ![signal.user_id] = Append(@, signal)]

\* f"company:{company_id}"
CompanyUser(company_id) == IF company_id = "c1" THEN "company:c1" ELSE "company:"

\* parse_funding_event up to the constructed signal
parse_funding_event(payload) ==
    IF external_validate_required_fields(payload, {"company_id", "funding_amount", "round_type"}) # "none"
    THEN Raised("ValueError")
    ELSE LET round_type == payload.round_type
             strength == CASE round_type = "seed" -> 500
                           [] round_type = "series_a" -> 700
                           [] round_type = "ipo" -> 1000
                           [] OTHER -> 500
             user_id == IF payload.user_id = NoKey THEN CompanyUser(payload.company_id)
                                                  ELSE payload.user_id
         IN  BuildSignal("funding_round", user_id, payload.timestamp, strength)

\* ExternalSignalAggregator._detect_seniority and ROLE_STRENGTHS
RoleStrength(new_title) ==
    LET level == detect_seniority(new_title)
    IN  CASE level = "DIRECTOR" -> 700
          [] level = "C_LEVEL" -> 900
          [] level = "VP" -> 800
          [] level = "MANAGER" -> 500
          [] OTHER -> 300

\* a title key that the payload does not have (titles are texts)
NoTitle == <<NoKey>>

\* parse_role_change up to the constructed signal
parse_role_change(payload) ==
    IF \/ external_validate_required_fields(payload, {"user_id"}) # "none"
       \/ payload.new_title = NoTitle
    THEN Raised("ValueError")
    ELSE BuildSignal("role_change", payload.user_id, payload.timestamp,
                     RoleStrength(payload.new_title))

\* parse_event_signal up to the constructed signal
parse_event_signal(payload) ==
    IF external_validate_required_fields(payload, {"attendee_id", "event_name", "event_type"}) # "none"
    THEN Raised("ValueError")
    ELSE LET strength == CASE payload.event_type = "conference" -> 800
                           [] payload.event_type = "workshop" -> 700
                           [] payload.event_type = "webinar" -> 500
                           [] payload.event_type = "meetup" -> 400
                           [] OTHER -> 500
         IN  BuildSignal("event_attendance", payload.attendee_id, payload.timestamp, strength)

\* round(1 - exp(-count / 5), 3) per mille, for the counts a store can hold
FrequencyScores == <<181, 330, 451, 551, 632, 699>>

frequency_score(count) == IF count = 0 THEN 0 ELSE FrequencyScores[count]

\* list.sort(key=timestamp, reverse=True): stable, newest first
RECURSIVE InsertNewestFirst(_, _)
InsertNewestFirst(sorted, s) ==
    IF sorted = <<>> THEN <<s>>
    ELSE IF Head(sorted).timestamp >= s.timestamp
         THEN <<Head(sorted)>> \o InsertNewestFirst(Tail(sorted), s)
         ELSE <<s>> \o sorted

RECURSIVE SortNewestFirst(_)
SortNewestFirst(signals) ==
    IF signals = <<>> THEN <<>>
    ELSE InsertNewestFirst(SortNewestFirst(SubSeq(signals, 1, Len(signals) - 1)),
                           signals[Len(signals)])

\* Optional[datetime] = None
NoDay == -1

\* aggregate_signals(user_id, window_days).  Comparing a timestamp that has
\* a UTC offset with the naive cutoff raises TypeError.
aggregate_signals(store, user_id, window_days) ==
    LET cutoff == Now - window_days
        user_signals == store[user_id]
        recent_signals == SelectSeq(user_signals, LAMBDA s : s.timestamp >= cutoff)
        sorted == SortNewestFirst(recent_signals)
    IN  IF \E i \in DOMAIN user_signals : user_signals[i].aware
        THEN Raised("TypeError")
        ELSE IF recent_signals = <<>>
        THEN [outcome |-> "returned", signals |-> <<>>, frequency_score |-> 0,
              total_count |-> 0, latest_timestamp |-> NoDay]
        ELSE [outcome |-> "returned", signals |-> sorted,
              frequency_score |-> frequency_score(Len(recent_signals)),
              total_count |-> Len(recent_signals),
              latest_timestamp |-> sorted[1].timestamp]

\* ------------------------------------------------------------------------
\* The monitor and the aggregator as operations on their stores
\* ------------------------------------------------------------------------
MaxStored == 3

RECURSIVE TotalStored(_, _)
TotalStored(store, users) ==
    IF users = {} THEN 0
    ELSE LET u == CHOOSE x \in users : TRUE
         IN  Len(store[u]) + TotalStored(store, users \ {u})

HasRoom ==
    TotalStored(linkedin_signals, StoreUsers) + TotalStored(external_signals, StoreUsers)
        < MaxStored

EngagementPayloads ==
    { [event_type |-> "like", user_id |-> u, post_id |-> p, timestamp |-> t] :
        u \in {"u1", "u2", "", NoKey}, p \in {"p1", NoKey},
        t \in {NoTimestamp, NaiveTimestamp(Now - 3), NaiveTimestamp(Now - 30),
               AwareTimestamp(Now - 1)} }

VisitPayloads ==
    LET base == { [visitor_id |-> u, visitor_url |-> url, timestamp |-> t] :
                    u \in {"u1", NoKey}, url \in {"url", ""},
                    t \in {NoTimestamp, NaiveTimestamp(Now + 2), BadTimestamp,
                           AwareTimestamp(Now - 1)} }
    IN  base \cup { [visitor_id |-> b.visitor_id, visitor_url |-> b.visitor_url,
                     timestamp |-> b.timestamp, visit_count |-> -3] : b \in base }

FundingPayloads ==
    { [company_id |-> c, funding_amount |-> a, round_type |-> "seed", user_id |-> u,
       timestamp |-> NoTimestamp] :
        c \in {"c1", NoKey}, a \in {"0", NoneValue}, u \in {NoKey, "", "u2"} }

RolePayloads ==
    { [user_id |-> u, new_title |-> title, timestamp |-> NoTimestamp] :
        u \in {"u1", "", NoKey}, title \in {<<"C", "E", "O">>, <<>>, NoTitle} }

EventPayloads ==
    { [attendee_id |-> u, event_name |-> n, event_type |-> "webinar",
       timestamp |-> NoTimestamp] :
        u \in {"u2", NoKey}, n \in {"e", NoneValue} }

\* a parse_* call on the monitor: validate, build, store, return
LinkedInParse(op, parsed, payload) ==
    /\ monitor_call' = [op |-> op, called |-> TRUE, payload |-> payload, result |-> parsed]
    /\ linkedin_signals' = IF parsed.outcome = "returned"
                           THEN Stored(linkedin_signals, parsed.signal)
                           ELSE linkedin_signals
    /\ UNCHANGED <<filterVars, scorerVars, engineVars, icpVars, signalVars,
                   enrich_call, external_signals>>

\* a parse_* call on the aggregator
ExternalParse(op, parsed, payload) ==
    /\ monitor_call' = [op |-> op, called |-> TRUE, payload |-> payload, result |-> parsed]
    /\ external_signals' = IF parsed.outcome = "returned"
                           THEN Stored(external_signals, parsed.signal)
                           ELSE external_signals
    /\ UNCHANGED <<filterVars, scorerVars, engineVars, icpVars, signalVars,
                   enrich_call, linkedin_signals>>

ParseEngagement ==
    /\ HasRoom
    /\ \E payload \in EngagementPayloads :
          LinkedInParse("parse_engagement", parse_engagement(payload), payload)

ParseProfileVisit ==
    /\ HasRoom
    /\ \E payload \in VisitPayloads :
          LinkedInParse("parse_profile_visit", parse_profile_visit(payload), payload)

ParseFundingEvent ==
    /\ HasRoom
    /\ \E payload \in FundingPayloads :
          ExternalParse("parse_funding_event", parse_funding_event(payload), payload)

ParseRoleChange ==
    /\ HasRoom
    /\ \E payload \in RolePayloads :
          ExternalParse("parse_role_change", parse_role_change(payload), payload)

ParseEventSignal ==
    /\ HasRoom
    /\ \E payload \in EventPayloads :
          ExternalParse("parse_event_signal", parse_event_signal(payload), payload)

WindowDays == {1, 7}

AggregateSignals ==
    /\ \E user_id \in {"u1", "u2"}, window_days \in WindowDays :
          monitor_call' = [op |-> "aggregate_signals", called |-> TRUE,
                           user_id |-> user_id, window_days |-> window_days,
                           result |-> aggregate_signals(linkedin_signals, user_id,
                                                        window_days)]
    /\ UNCHANGED <<filterVars, scorerVars, engineVars, icpVars, signalVars,
                   enrich_call, linkedin_signals, external_signals>>

MonitorInit ==
    /\ FilterIdle
    /\ ScorerIdle
    /\ EngineIdle
    /\ IcpIdle
    /\ SignalIdle
    /\ IntakeIdle

MonitorNext ==
    \/ ParseEngagement
    \/ ParseProfileVisit
    \/ AggregateSignals
    \/ ParseFundingEvent
    \/ ParseRoleChange
    \/ ParseEventSignal

MonitorSpec == MonitorInit /\ [][MonitorNext]_vars

IsAggregation == monitor_call.called /\ monitor_call.op = "aggregate_signals"

\* how often a signal occurs in a list
Occurrences(signals, s) == Cardinality({ i \in DOMAIN signals : signals[i] = s })

\* C24: aggregate_signals(user, window_days) returns exactly the stored
\* signals of that user whose timestamp is within the last window_days,
\* newest first, with total_count the number returned, latest_timestamp the
\* newest one and frequency_score in (0, 1] and increasing with the count;
\* with no signal in the window it returns the empty aggregation.
C24_AggregationOfWindow ==
    IsAggregation =>
        LET r == monitor_call.result
            stored == linkedin_signals[monitor_call.user_id]
            in_window == SelectSeq(stored,
                             LAMBDA s : s.timestamp >= Now - monitor_call.window_days)
        IN  IF r.outcome # "returned" THEN FALSE
            ELSE /\ Len(r.signals) = Len(in_window)
                 /\ \A i \in DOMAIN in_window :
                       Occurrences(r.signals, in_window[i]) = Occurrences(in_window, in_window[i])
                 /\ \A i, j \in DOMAIN r.signals :
                       i < j => r.signals[i].timestamp >= r.signals[j].timestamp
                 /\ r.total_count = Len(r.signals)
                 /\ IF r.signals = <<>>
                    THEN r.frequency_score = 0 /\ r.latest_timestamp = NoDay
                    ELSE /\ r.latest_timestamp = r.signals[1].timestamp
                         /\ 0 < r.frequency_score /\ r.frequency_score <= 1000
                         /\ \A fewer \in 0..(r.total_count - 1) :
                               frequency_score(fewer) < r.frequency_score

\* the fields each parse_* method documents as required
RequiredFields(op) ==
    CASE op = "parse_engagement" -> {"event_type", "user_id", "post_id"}
      [] op = "parse_profile_visit" -> {"visitor_id", "visitor_url"}
      [] op = "parse_funding_event" -> {"company_id", "funding_amount", "round_type"}
      [] op = "parse_role_change" -> {"user_id", "new_title"}
      [] op = "parse_event_signal" -> {"attendee_id", "event_name", "event_type"}

\* the payload has no such key
LacksField(payload, f) ==
    IF f = "new_title" THEN payload[f] = NoTitle ELSE payload[f] = NoKey

ParseOps ==
    {"parse_engagement", "parse_profile_visit", "parse_funding_event",
     "parse_role_change", "parse_event_signal"}

\* the store of the class the method belongs to, and the other class's
OwnStore(op, linkedin, external) ==
    IF op \in {"parse_engagement", "parse_profile_visit"} THEN linkedin ELSE external

OtherStore(op, linkedin, external) ==
    IF op \in {"parse_engagement", "parse_profile_visit"} THEN external ELSE linkedin

\* C25: a parse_* call whose payload lacks a required field raises ValueError
\* and leaves the signal store unchanged; a successful parse_* call appends
\* exactly one signal, the one it returns, to the list of that signal's user
\* id and changes no other user's list.
C25_ParseStoresOneSignal ==
    [][LET c == monitor_call'
       IN  (c.called /\ c.op \in ParseOps) =>
             LET before == OwnStore(c.op, linkedin_signals, external_signals)
                 after == OwnStore(c.op, linkedin_signals', external_signals')
                 other_unchanged ==
                     OtherStore(c.op, linkedin_signals', external_signals')
                         = OtherStore(c.op, linkedin_signals, external_signals)
             IN  /\ (\E f \in RequiredFields(c.op) : LacksField(c.payload, f)) =>
                       /\ c.result.outcome = "ValueError"
                       /\ after = before
                       /\ other_unchanged
                 /\ c.result.outcome = "returned" =>
                       LET signal == c.result.signal
                       IN  /\ after[signal.user_id] = Append(before[signal.user_id], signal)
                           /\ \A u \in StoreUsers \ {signal.user_id} : after[u] = before[u]
                           /\ other_unchanged]_vars

\* a funding event was parsed and is stored under the company's id, next to
\* a role change of u1; the monitor holds an engagement or a visit of u1
C25_Witness ==
    /\ monitor_call.called
    /\ monitor_call.op = "parse_funding_event"
    /\ monitor_call.result.outcome = "returned"
    /\ Len(external_signals["company:c1"]) = 1
    /\ Len(external_signals["u1"]) = 1
    /\ Len(linkedin_signals["u1"]) = 1

\* ------------------------------------------------------------------------
\* SignalEvent.decay_weight next to IntentScorer._calculate_decay
\* ------------------------------------------------------------------------
\* decay_weight: math.exp(-0.693 * age / half_life) per mille, the age being
\* reference time minus timestamp as it is.  To the per mille
\* exp(-0.693 * r / h) is 0.5 ** (r / h), and exp(0.693 * x) its reciprocal.
decay_weight(half_life, now, timestamp) ==
    LET age == now - timestamp
    IN  IF age >= 0
        THEN HalfPowFrac[half_life][(age % half_life) + 1] \div Pow2(age \div half_life)
        ELSE (1000000 * Pow2((0 - age) \div half_life))
                 \div HalfPowFrac[half_life][((0 - age) % half_life) + 1]

\* ages in days of the signals decay_weight is called on: future ones too
WeightAges == {-7, -3, -1, 0, 1, 3, 7, 14, 21}

\* signal.decay_weight(half_life_hours) is called
DecayWeight ==
    /\ \E age \in WeightAges, half_life \in {3, 7} :
          score_call' = [op |-> "decay_weight", called |-> TRUE, age |-> age,
                         half_life |-> half_life,
                         result |-> decay_weight(half_life, Now, Now - age)]
    /\ prev_call' = score_call
    /\ UNCHANGED <<intakeVars, filterVars, scorer_config, engineVars, icpVars, signalVars>>

DecayFunctionsNext == CalculateDecay \/ DecayWeight

DecayFunctionsSpec == DecayInit /\ [][DecayFunctionsNext]_vars

\* C28: no decay function amplifies a signal: for every timestamp, future
\* ones included, _calculate_decay and decay_weight return a weight in
\* [0.0, 1.0], and a signal timestamped in the future weighs exactly 1.0.
C28_DecayNeverAmplifies ==
    /\ IsDecayCall(score_call) =>
          /\ ~DoubleLess(DoubleOne, score_call.result)
          /\ ~DoubleLess(score_call.result, DoubleZero)
          /\ score_call.age < 0 => score_call.result = DoubleOne
    /\ (score_call.called /\ score_call.op = "decay_weight") =>
          /\ 0 <= score_call.result /\ score_call.result <= 1000
          /\ score_call.age < 0 => score_call.result = 1000

\* ------------------------------------------------------------------------
\* The same signals scored in another order
\* ------------------------------------------------------------------------
\* the lists that hold the same signals as `signals`, in every order
Reorderings(signals) ==
    LET idx == DOMAIN signals
    IN  { [i \in idx |-> signals[p[i]]] :
            p \in { f \in [idx -> idx] : \A i, j \in idx : f[i] = f[j] => i = j } }

\* the lead is scored again with its signals listed in another order
ScoreReordered ==
    /\ IsIntentCall(score_call)
    /\ \E signals \in Reorderings(score_call.signals) \ {score_call.signals} :
          score_call' = IntentCall(signals, score_call.lead, score_call.company_signals)
    /\ prev_call' = score_call
    /\ UNCHANGED <<intakeVars, filterVars, scorer_config, engineVars, icpVars, signalVars>>

ReorderNext == ScoreNew \/ ScoreAppended \/ ScoreReordered

ReorderSpec == ScorerInit /\ [][ReorderNext]_vars

\* C30: calculate_intent_score does not depend on the order of its signal
\* list: two calls on the same signals in different orders, with the same
\* lead and company signals, return the same score, label, signals_score,
\* recency_factor and committee_factor.
C30_ScoreIndependentOfOrder ==
    ( /\ IsIntentCall(score_call)
      /\ IsIntentCall(prev_call)
      /\ score_call.lead = prev_call.lead
      /\ score_call.company_signals = prev_call.company_signals
      /\ score_call.signals \in Reorderings(prev_call.signals) ) =>
        LET a == prev_call.result
            b == score_call.result
        IN  /\ b.score = a.score
            /\ b.label = a.label
            /\ b.signals_score = a.signals_score
            /\ b.recency_factor = a.recency_factor
            /\ b.committee_factor = a.committee_factor
====
